------------------------------ MODULE Sessions ------------------------------
(* Admission to the Panel (src/internal/auth): Password Sessions with a      *)
(* sliding expiry, or the assertion of a trusted proxy.                      *)
EXTENDS Naturals, Sequences, FiniteSets

CONSTANTS Tokens,     \* session tokens, 256 random bits: never handed out twice
          NoToken,    \* a request without the cookie, or with a value never issued
          TTL,        \* the lifetime, in ticks of the clock
          NoEntry

ASSUME SessionsAssumption == NoToken \notin Tokens /\ TTL \in Nat \ {0} /\ NoEntry \notin Nat

VARIABLES mode,       \* the configured authentication mode
          sessions,   \* token -> ticks until it expires, 0 once it has; NoEntry
          idle,       \* token -> ticks since the store last accepted it, up to TTL
          issued,
          loggedOut   \* the tokens whose logout was answered

sessionVars == <<mode, sessions, idle, issued, loggedOut>>

SessionsInit ==
    /\ mode \in {"password", "trusted_proxy"}
    /\ sessions = [t \in Tokens |-> NoEntry]
    /\ idle = [t \in Tokens |-> TTL]
    /\ issued = {}
    /\ loggedOut = {}

Tick ==
    /\ sessions' = [t \in Tokens |-> IF sessions[t] \in 1 .. TTL THEN sessions[t] - 1 ELSE sessions[t]]
    /\ idle' = [t \in Tokens |-> IF idle[t] < TTL THEN idle[t] + 1 ELSE TTL]
    /\ UNCHANGED <<mode, issued, loggedOut>>

Renew(t) ==
    /\ sessions' = [sessions EXCEPT ![t] = TTL]
    /\ idle' = [idle EXCEPT ![t] = 0]

\* POST /api/v1/login with the right password. Any other answers and changes nothing.
Login(t) ==
    /\ mode = "password" /\ t \notin issued
    /\ Renew(t)
    /\ issued' = issued \cup {t}
    /\ UNCHANGED <<mode, loggedOut>>

ValidLate(t) == t \in Tokens /\ sessions[t] # NoEntry

Valid(t) == t \in Tokens /\ sessions[t] \in 1 .. TTL

\* Validate: one critical section that drops an expired entry or slides it.
Validate(t) ==
    /\ IF Valid(t) THEN Renew(t)
       ELSE /\ sessions' = [u \in Tokens |-> IF u = t THEN NoEntry ELSE sessions[u]]
            /\ UNCHANGED idle
    /\ UNCHANGED <<mode, issued, loggedOut>>

\* sessions.Logout, after the Validate of the same request.
Delete(t) ==
    /\ sessions' = [sessions EXCEPT ![t] = NoEntry]
    /\ loggedOut' = loggedOut \cup {t}
    /\ UNCHANGED <<mode, idle, issued>>

\* requireSession or requireTrustedAssertion: exactly one header with the secret.
Admitted(t, assertions) ==
    IF mode = "password" THEN Valid(t) ELSE assertions = <<"secret">>
=============================================================================
