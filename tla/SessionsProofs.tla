--------------------------- MODULE SessionsProofs ----------------------------
(***************************************************************************)
(* Proofs about Sessions, for any tokens and any number of requests.       *)
(*                                                                         *)
(* TypeOK says too little about a request between its lookup and its       *)
(* answer: that the expiry it holds is the one its token was issued with,  *)
(* though the session may be gone from the map by now (RequestIsFair), and *)
(* that the map holds exactly the sessions that are not over, except       *)
(* expired ones still to be removed (MapIsFair).                           *)
(***************************************************************************)
EXTENDS Sessions, TLAPS

MapIsFair ==
    \A t \in Tokens :
        /\ sessions[t] # Nil => sessions[t] = issued[t] /\ t \notin loggedOut
        /\ issued[t] # Nil /\ sessions[t] = Nil => Over(t)
        /\ t \in loggedOut => issued[t] # Nil

RequestIsFair ==
    \A r \in Requests :
        LET q == request[r]
        IN  /\ q.pc # "idle" /\ q.start # "unknown" => issued[q.token] # Nil
            /\ q.pc # "idle" /\ q.start = "over" => Over(q.token)
            /\ q.pc \in {"check", "delete", "accepted"}
                 => q.expiresAt = issued[q.token]
            /\ q.pc = "check" /\ q.start = "over" => Expired(q.expiresAt)
            /\ q.pc = "accepted" => q.start # "over"
            /\ q.pc = "delete" => Expired(q.expiresAt)
            /\ q.pc = "denied" => q.start = "unknown" \/ Over(q.token)

Inv == TypeOK /\ MapIsFair /\ RequestIsFair

\* No session and no request: all of it holds at the start.
LEMMA InitInv == Init => Inv
  BY SessionsAssumption
  DEF Init, Inv, TypeOK, MapIsFair, RequestIsFair, NoRequest, Frame

\* Every step of a request, of the clean-up and of the clock keeps the three
\* parts together.
LEMMA StepInv == Inv /\ [Next]_vars => Inv'
  <1> SUFFICES ASSUME Inv, [Next]_vars PROVE Inv'
      OBVIOUS
  <1> USE SessionsAssumption DEF Inv
  <1>1. ASSUME NEW t \in Tokens, Login(t) PROVE Inv'
      BY <1>1 DEF Login, TypeOK, MapIsFair, RequestIsFair, Over, Expired
  <1>2. ASSUME NEW r \in Requests, NEW kind \in {"api", "logout"}, NEW t \in Tokens,
               Receive(r, kind, t)
        PROVE Inv'
      BY <1>2 DEF Receive, TypeOK, MapIsFair, RequestIsFair, Over, Expired, Worth, Frame
  <1>3. ASSUME NEW r \in Requests, Lookup(r) PROVE Inv'
      <2> DEFINE t == request[r].token
      <2>1. request[r].pc = "lookup" /\ t \in Tokens
            BY <1>3 DEF Lookup, TypeOK
      \* a token the map does not have is unknown or over
      <2>2. CASE sessions[t] = Nil
        <3>1. Goto(r, "denied") /\ UNCHANGED <<sessions, issued, loggedOut, now>>
              BY <1>3, <2>2 DEF Lookup
        <3> QED
            BY <2>1, <2>2, <3>1 DEF Goto, TypeOK, MapIsFair, RequestIsFair, Over, Expired
      \* one the map has is not logged out: over means expired
      <2>3. CASE sessions[t] # Nil
        <3> DEFINE f == [[request[r] EXCEPT !.pc = "check"] EXCEPT !.expiresAt = issued[t]]
        <3>1. sessions[t] = issued[t] /\ sessions[t] \in Nat /\ t \notin loggedOut
              BY <2>1, <2>3 DEF TypeOK, MapIsFair
        <3>2. /\ request' = [request EXCEPT ![r] = f]
              /\ UNCHANGED <<sessions, issued, loggedOut, now>>
              BY <1>3, <2>3, <3>1 DEF Lookup, TypeOK
        <3>3. /\ f.pc = "check" /\ f.expiresAt = issued[t] /\ f.token = t
              /\ f.start = request[r].start
              /\ f \in [pc : {"idle", "lookup", "check", "delete", "accepted", "denied"},
                        kind : {"api", "logout"}, token : Tokens \cup {Nil},
                        expiresAt : Nat \cup {Nil}, start : {"unknown", "live", "over"}]
              BY <2>1, <3>1 DEF TypeOK
        <3>4. f.start = "over" => Expired(f.expiresAt)
              BY <2>1, <3>1, <3>3 DEF RequestIsFair, Over, Expired
        <3> HIDE DEF f
        <3>5. TypeOK'
              BY <2>1, <3>1, <3>2, <3>3 DEF TypeOK
        <3>6. MapIsFair'
              BY <3>2 DEF MapIsFair, Over
        <3>7. RequestIsFair'
              BY <2>1, <2>3, <3>1, <3>2, <3>3, <3>4
              DEF TypeOK, RequestIsFair, Over, Expired
        <3> QED BY <3>5, <3>6, <3>7
      <2> QED BY <2>2, <2>3
  <1>4. ASSUME NEW r \in Requests, Check(r) PROVE Inv'
      BY <1>4 DEF Check, Goto, TypeOK, MapIsFair, RequestIsFair, Over, Expired
  <1>5. ASSUME NEW r \in Requests, Delete(r) PROVE Inv'
      BY <1>5 DEF Delete, Goto, TypeOK, MapIsFair, RequestIsFair, Over, Expired
  <1>6. ASSUME NEW r \in Requests, Serve(r) PROVE Inv'
      BY <1>6 DEF Serve, NoRequest, Frame, TypeOK, MapIsFair, RequestIsFair, Over, Expired
  <1>7. ASSUME NEW r \in Requests, Refuse(r) PROVE Inv'
      BY <1>7 DEF Refuse, NoRequest, Frame, TypeOK, MapIsFair, RequestIsFair, Over, Expired
  <1>8. CASE Cleanup
      BY <1>8 DEF Cleanup, TypeOK, MapIsFair, RequestIsFair, Over, Expired
  <1>9. CASE Clock
      BY <1>9 DEF Clock, TypeOK, MapIsFair, RequestIsFair, Over, Expired
  <1>10. CASE UNCHANGED vars
      BY <1>10 DEF vars, TypeOK, MapIsFair, RequestIsFair, Over, Expired
  <1> QED
      BY <1>1, <1>2, <1>3, <1>4, <1>5, <1>6, <1>7, <1>8, <1>9, <1>10
      DEF Next, RequestStep

LEMMA AlwaysInv == Spec => []Inv
  BY InitInv, StepInv, PTL DEF Spec

\* A handler always has its token, and never uses a session that does not exist.
THEOREM TypeCorrect == Spec => []TypeOK
  <1> Inv => TypeOK BY DEF Inv
  <1> QED BY AlwaysInv, PTL

\* No request that comes after a logout or an expiry is accepted, for any number
\* of requests between their lookup and their answer.
THEOREM LogoutIsFinal == Spec => []OverIsRefused
  <1> Inv => OverIsRefused BY DEF Inv, RequestIsFair, OverIsRefused
  <1> QED BY AlwaysInv, PTL

\* No live session is refused, however late another request deletes the one it
\* found expired.
THEOREM NobodyIsThrownOut == Spec => []LiveIsServed
  <1> Inv => LiveIsServed BY DEF Inv, RequestIsFair, LiveIsServed
  <1> QED BY AlwaysInv, PTL

==============================================================================
