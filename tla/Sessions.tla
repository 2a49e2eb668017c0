------------------------------- MODULE Sessions ------------------------------
(***************************************************************************)
(* AuthManager of server/auth.go: the sessions, the requests that come     *)
(* with a session token through AuthMiddleware, and the goroutine that     *)
(* removes expired sessions.  ValidateToken looks the session up under a   *)
(* read lock, decides without it and takes the lock again to delete.       *)
(*                                                                         *)
(* A token is 32 random bytes: Login never returns one twice.  Requests    *)
(* without a cookie never reach ValidateToken and are left out.            *)
(***************************************************************************)
EXTENDS Integers, FiniteSets

CONSTANTS
    Tokens,
    Requests,           \* the goroutines that serve requests
    SessionTimeout,     \* 24 h in the code
    MaxTime,            \* bound on the clock
    Nil

ASSUME SessionsAssumption ==
    /\ SessionTimeout \in Nat \ {0}
    /\ MaxTime \in Nat
    /\ Nil \notin Int

VARIABLES
    sessions,   \* token -> ExpiresAt, or Nil
    issued,     \* token -> the ExpiresAt it was given, or Nil; not in the code
    loggedOut,  \* the tokens whose logout was served; not in the code
    request,    \* the stack frame of each request
    now

vars == <<sessions, issued, loggedOut, request, now>>

\* kind is "logout" for /api/logout and "api" for any other path that needs a
\* session, expiresAt the session found.  start is not in the code: it records
\* what the token was worth when the request came.
Frame(pc, kind, token, start) ==
    [pc |-> pc, kind |-> kind, token |-> token, expiresAt |-> Nil, start |-> start]
NoRequest == Frame("idle", "api", Nil, "unknown")

\* Faulty: a session expires only once its time is well past.
ExpiredLate(expiresAt) == now > expiresAt + 1

Expired(expiresAt) == now > expiresAt

\* A session is over once it is logged out or has expired.
Over(t) == t \in loggedOut \/ now > issued[t]
Worth(t) == IF issued[t] = Nil THEN "unknown" ELSE IF Over(t) THEN "over" ELSE "live"

Goto(r, pc) == request' = [request EXCEPT ![r].pc = pc]

------------------------------------------------------------------------------
\* Login, with the right name and password; any other changes nothing.
Login(t) ==
    /\ issued[t] = Nil
    /\ issued' = [issued EXCEPT ![t] = now + SessionTimeout]
    /\ sessions' = [sessions EXCEPT ![t] = now + SessionTimeout]
    /\ UNCHANGED <<loggedOut, request, now>>

\* A request comes in with a cookie, of a session or not.
Receive(r, kind, t) ==
    /\ request[r].pc = "idle"
    /\ request' = [request EXCEPT ![r] = Frame("lookup", kind, t, Worth(t))]
    /\ UNCHANGED <<sessions, issued, loggedOut, now>>

\* Faulty: whether the session exists is not looked at.
LookupUnchecked(r) ==
    /\ request[r].pc = "lookup"
    /\ request' = [request EXCEPT ![r].pc = "check",
                                  ![r].expiresAt = sessions[request[r].token]]
    /\ UNCHANGED <<sessions, issued, loggedOut, now>>

\* ValidateToken, under the read lock.
Lookup(r) ==
    LET s == sessions[request[r].token]
    IN  /\ request[r].pc = "lookup"
        /\ \/ s = Nil /\ Goto(r, "denied")
           \/ /\ s # Nil
              /\ request' = [request EXCEPT ![r].pc = "check", ![r].expiresAt = s]
        /\ UNCHANGED <<sessions, issued, loggedOut, now>>

\* ValidateToken, without a lock.
Check(r) ==
    /\ request[r].pc = "check"
    /\ Goto(r, IF Expired(request[r].expiresAt) THEN "delete" ELSE "accepted")
    /\ UNCHANGED <<sessions, issued, loggedOut, now>>

\* Faulty: all sessions are deleted when one has expired.
DeleteAll(r) ==
    /\ request[r].pc = "delete"
    /\ sessions' = [t \in Tokens |-> Nil]
    /\ Goto(r, "denied")
    /\ UNCHANGED <<issued, loggedOut, now>>

Delete(r) ==
    /\ request[r].pc = "delete"
    /\ sessions' = [sessions EXCEPT ![request[r].token] = Nil]
    /\ Goto(r, "denied")
    /\ UNCHANGED <<issued, loggedOut, now>>

\* next.ServeHTTP: HandleLogout deletes the session of its cookie.
Serve(r) ==
    LET t == request[r].token
    IN  /\ request[r].pc = "accepted"
        /\ \/ /\ request[r].kind = "logout"
              /\ sessions' = [sessions EXCEPT ![t] = Nil]
              /\ loggedOut' = loggedOut \cup {t}
           \/ /\ request[r].kind = "api"
              /\ UNCHANGED <<sessions, loggedOut>>
        /\ request' = [request EXCEPT ![r] = NoRequest]
        /\ UNCHANGED <<issued, now>>

Refuse(r) ==
    /\ request[r].pc = "denied"
    /\ request' = [request EXCEPT ![r] = NoRequest]
    /\ UNCHANGED <<sessions, issued, loggedOut, now>>

\* Faulty: the comparison is the wrong way round.
CleanupLive ==
    /\ sessions' = [t \in Tokens |->
                       IF sessions[t] # Nil /\ ~Expired(sessions[t]) THEN Nil
                       ELSE sessions[t]]
    /\ UNCHANGED <<issued, loggedOut, request, now>>

\* One tick of cleanupExpiredSessions.
Cleanup ==
    /\ sessions' = [t \in Tokens |->
                       IF sessions[t] # Nil /\ Expired(sessions[t]) THEN Nil
                       ELSE sessions[t]]
    /\ UNCHANGED <<issued, loggedOut, request, now>>

Clock ==
    /\ now < MaxTime
    /\ now' = now + 1
    /\ UNCHANGED <<sessions, issued, loggedOut, request>>

------------------------------------------------------------------------------
Init ==
    /\ sessions = [t \in Tokens |-> Nil]
    /\ issued = [t \in Tokens |-> Nil]
    /\ loggedOut = {}
    /\ request = [r \in Requests |-> NoRequest]
    /\ now = 0

RequestStep(r) ==
    \/ \E kind \in {"api", "logout"}, t \in Tokens : Receive(r, kind, t)
    \/ Lookup(r) \/ Check(r) \/ Delete(r) \/ Serve(r) \/ Refuse(r)

Next ==
    \/ \E t \in Tokens : Login(t)
    \/ \E r \in Requests : RequestStep(r)
    \/ Cleanup
    \/ Clock

Spec == Init /\ [][Next]_vars

\* The ticker of the clean-up goroutine is never stopped.
FairSpec == Spec /\ WF_vars(Cleanup)

------------------------------------------------------------------------------
\* Properties.

TypeOK ==
    /\ sessions \in [Tokens -> Nat \cup {Nil}]
    /\ issued \in [Tokens -> Nat \cup {Nil}]
    /\ loggedOut \in SUBSET Tokens
    /\ request \in [Requests ->
           [pc : {"idle", "lookup", "check", "delete", "accepted", "denied"},
            kind : {"api", "logout"}, token : Tokens \cup {Nil},
            expiresAt : Nat \cup {Nil}, start : {"unknown", "live", "over"}]]
    /\ now \in Nat
    \* a handler has its token, and the session it decides about exists
    /\ \A r \in Requests :
          /\ request[r].pc # "idle" => request[r].token \in Tokens
          /\ request[r].pc \in {"check", "delete", "accepted"}
               => request[r].expiresAt \in Nat

\* A session that is over stays over: a request that comes after the logout was
\* served, or after the 24 hours, is never accepted, however the lookups,
\* deletions and ticks of the clean-up interleave.
OverIsRefused ==
    \A r \in Requests : request[r].pc = "accepted" => request[r].start # "over"

\* Nobody is thrown out: a request with the token of a session is refused only
\* if that session is over by then, though ValidateToken deletes what it looked
\* up under an earlier lock.
LiveIsServed ==
    \A r \in Requests :
        request[r].pc = "denied" =>
            request[r].start = "unknown" \/ Over(request[r].token)

\* The map does not grow for ever: a session that expired is removed, although
\* no request comes with its token.
ExpiredIsRemoved ==
    \A t \in Tokens :
        (sessions[t] # Nil /\ now > issued[t]) ~> sessions[t] = Nil

==============================================================================
