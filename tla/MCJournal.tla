------------------------------ MODULE MCJournal -----------------------------
EXTENDS Journal

MCHeaders == {<< >>, <<"secret">>, <<"secret", "secret">>, <<"other">>}
=============================================================================
