----------------------------- MODULE NodeProofs -----------------------------
(* The other side of the connections.  First the relay sessions: the books *)
(* of HandleRelay, for any number of attempts, signals and faults.  Then   *)
(* external plugins: what a broadcast may do and whose result a call gets, *)
(* for any number of streams, registrations, calls and events.  Then the   *)
(* node: its tunnels and the server's proxies agree, for any set of        *)
(* proxies and any number of connections, changes, tunnels and messages.   *)
EXTENDS ClientNode, Relay, PluginHost, FiniteSetTheorems, TLAPS

-----------------------------------------------------------------------------
(* Queues: what Append and Tail do to a sequence.                          *)

\* What appending does to a queue.
LEMMA AppendFacts ==
  ASSUME NEW S, NEW q \in Seq(S), NEW m \in S
  PROVE  LET a == Append(q, m) IN
         /\ a \in Seq(S) /\ Len(a) = Len(q) + 1 /\ Len(q) \in Nat
         /\ DOMAIN a = 1..(Len(q) + 1) /\ DOMAIN q = 1..Len(q)
         /\ a[Len(q) + 1] = m
         /\ \A i \in DOMAIN q : i \in DOMAIN a /\ a[i] = q[i]
         /\ \A i \in DOMAIN a : i = Len(q) + 1 \/ i \in DOMAIN q
  OBVIOUS

\* What taking the head does to a queue.
LEMMA TailFacts ==
  ASSUME NEW S, NEW q \in Seq(S), q # <<>>
  PROVE  LET t == Tail(q) IN
         /\ t \in Seq(S) /\ Len(t) = Len(q) - 1 /\ Len(q) \in Nat /\ Len(q) > 0
         /\ DOMAIN t = 1..(Len(q) - 1) /\ DOMAIN q = 1..Len(q)
         /\ 1 \in DOMAIN q /\ q[1] = Head(q) /\ Head(q) \in S
         /\ \A i \in DOMAIN t : i + 1 \in DOMAIN q /\ t[i] = q[i + 1]
  <1>1. Len(q) \in Nat /\ Len(q) > 0 /\ DOMAIN q = 1..Len(q)
    OBVIOUS
  <1>2. Tail(q) \in Seq(S) /\ Len(Tail(q)) = Len(q) - 1
    BY <1>1
  <1>3. \A i \in 1..(Len(q) - 1) : Tail(q)[i] = q[i + 1]
    BY <1>1
  <1>4. q[1] = Head(q) /\ Head(q) \in S
    BY <1>1
  <1> QED
    BY <1>1, <1>2, <1>3, <1>4

-----------------------------------------------------------------------------
(* Relay sessions.                                                         *)

AttemptRec == [role : Roles, live : BOOLEAN, old : BOOLEAN,
               pc : {"dial", "up", "exit", "ended"}]

(* The numbers of attempts are positive numbers.                           *)
LEMMA AttemptsAreNumbers ==
  /\ Attempts \subseteq Nat \ {0} /\ 0..MaxAttempts \subseteq Nat
  /\ \A a \in 0..MaxAttempts : a # 0 => a \in Attempts
  /\ Attempts \subseteq 0..MaxAttempts /\ 0 \in 0..MaxAttempts
  BY RelayAssumption DEF Attempts

(* The attempts that exist have numbers.                                   *)
LEMMA AttemptsInDomain ==
  ASSUME RelayTypeOK
  PROVE  /\ DOMAIN att \subseteq Attempts /\ DOMAIN att = 1..Len(att)
         /\ Len(att) \in Nat
         /\ \A a \in DOMAIN att : att[a] \in AttemptRec
  <1>1. att \in Seq(AttemptRec) /\ Len(att) <= MaxAttempts
    BY DEF RelayTypeOK, AttemptRec
  <1>2. /\ DOMAIN att = 1..Len(att) /\ Len(att) \in Nat
        /\ \A a \in DOMAIN att : att[a] \in AttemptRec
    BY <1>1
  <1> QED
    BY <1>1, <1>2, RelayAssumption DEF Attempts

(* A sequence of attempts that was changed in place is one of attempts.    *)
LEMMA AttemptsInPlace ==
  ASSUME RelayTypeOK, NEW t, DOMAIN t = DOMAIN att, t = [a \in DOMAIN att |-> t[a]],
         \A a \in DOMAIN att : t[a] \in AttemptRec
  PROVE  t \in Seq(AttemptRec) /\ Len(t) = Len(att)
  <1>1. DOMAIN att = 1..Len(att) /\ Len(att) \in Nat
    BY AttemptsInDomain
  <1>2. t \in [1..Len(att) -> AttemptRec]
    BY <1>1
  <1> QED
    BY <1>1, <1>2

(* Moved changes the place of one attempt and nothing else.                *)
LEMMA MovedInPlace ==
  ASSUME RelayTypeOK, NEW a \in DOMAIN att,
         NEW pc \in {"dial", "up", "exit", "ended"}
  PROVE  LET t == Moved(a, pc) IN
         /\ t \in Seq(AttemptRec) /\ Len(t) = Len(att)
         /\ DOMAIN t = DOMAIN att
         /\ \A b \in DOMAIN att : b # a => t[b] = att[b]
         /\ t[a].pc = pc /\ t[a].role = att[a].role /\ t[a].live = att[a].live
         /\ t[a].old = att[a].old
  <1> DEFINE t == Moved(a, pc)
  <1>1. /\ DOMAIN t = DOMAIN att /\ t = [b \in DOMAIN att |-> t[b]]
        /\ \A b \in DOMAIN att : b # a => t[b] = att[b]
    BY DEF Moved
  <1>2. t[a] = [att[a] EXCEPT !.pc = pc]
    BY DEF Moved
  <1>3. /\ t[a].pc = pc /\ t[a].role = att[a].role /\ t[a].live = att[a].live
        /\ t[a].old = att[a].old /\ t[a] \in AttemptRec
    BY <1>2, AttemptsInDomain DEF AttemptRec
  <1>4. \A b \in DOMAIN att : t[b] \in AttemptRec
    BY <1>1, <1>3, AttemptsInDomain
  <1>5. t \in Seq(AttemptRec) /\ Len(t) = Len(att)
    BY <1>1, <1>4, AttemptsInPlace
  <1> QED
    BY <1>1, <1>3, <1>5

(* At the start there is nothing.                                          *)
LEMMA RelayInvInit == RelayInit => RelayInv /\ NoMissedMeeting
  <1> SUFFICES ASSUME RelayInit PROVE RelayInv /\ NoMissedMeeting
    OBVIOUS
  <1> USE RelayAssumption, AttemptsAreNumbers DEF RelayInit
  <1>1. RelayTypeOK
    BY DEF RelayTypeOK, ConnStates
  <1>2. PairingSound /\ PipesInStep /\ NoMissedMeeting
    BY DEF PairingSound, PipesInStep, NoMissedMeeting, Waiting
  <1>3. InCharge
    BY DEF InCharge
  <1> QED
    BY <1>1, <1>2, <1>3 DEF RelayInv

(* The books of HandleRelay stay right when the server's side is left      *)
(* alone and no attempt goes back to the dial.                             *)
LEMMA SameBooks ==
  ASSUME PairingSound, PipesInStep, UNCHANGED relayPipeVars,
         DOMAIN att \subseteq DOMAIN att',
         \A a \in DOMAIN att : AttemptAt(a, "dial")' => AttemptAt(a, "dial")
  PROVE  PairingSound' /\ PipesInStep'
  <1> USE DEF relayPipeVars
  <1>1. PairingSound'
    BY DEF PairingSound
  <1>2. ASSUME NEW a \in Attempts, a \notin DOMAIN att' \/ AttemptAt(a, "dial")'
        PROVE  a \notin DOMAIN att \/ AttemptAt(a, "dial")
    BY <1>2
  <1>3. PipesInStep'
    BY <1>2 DEF PipesInStep
  <1> QED
    BY <1>1, <1>3

(* One attempt stays in charge while attempts only move, or stop being     *)
(* live, and the manager's map is left alone.                              *)
LEMMA SameCharge ==
  ASSUME InCharge, DOMAIN att' = DOMAIN att, UNCHANGED sessions,
         \A a \in DOMAIN att : /\ att'[a].role = att[a].role
                               /\ att'[a].live => att[a].live
                               /\ att[a].pc = "ended" => att'[a].pc = "ended"
  PROVE  InCharge'
  BY DEF InCharge

(* A step that moves one attempt away from the dial, and at most the port, *)
(* keeps the invariant.                                                    *)
LEMMA AttemptMoves ==
  ASSUME RelayInv, NoMissedMeeting, NEW a \in DOMAIN att,
         NEW pc \in {"up", "exit"}, att[a].pc # "ended",
         att' = Moved(a, pc),
         UNCHANGED <<envVars, sessions, port, dead, relayPipeVars>>
  PROVE  RelayInv' /\ NoMissedMeeting'
  <1> USE DEF RelayInv
  <1>1. /\ att' \in Seq(AttemptRec) /\ Len(att') = Len(att)
        /\ DOMAIN att' = DOMAIN att
        /\ \A b \in DOMAIN att : b # a => att'[b] = att[b]
        /\ att'[a].pc = pc /\ att'[a].role = att[a].role
        /\ att'[a].live = att[a].live
    BY MovedInPlace
  <1>2. RelayTypeOK'
    BY <1>1 DEF RelayTypeOK, AttemptRec, envVars, relayPipeVars
  <1>3. \A b \in DOMAIN att : AttemptAt(b, "dial")' => AttemptAt(b, "dial")
    BY <1>1 DEF AttemptAt
  <1>4. PairingSound' /\ PipesInStep'
    BY <1>1, <1>3, SameBooks
  <1>5. InCharge'
    BY <1>1, SameCharge
  <1>6. NoMissedMeeting'
    BY DEF NoMissedMeeting, Waiting, relayPipeVars
  <1> QED
    BY <1>2, <1>4, <1>5, <1>6

(* A signal appends an attempt that has made no connection.                *)
LEMMA SignalSafe ==
  ASSUME RelayInv, NoMissedMeeting, NEW r \in Roles, Signal(r)
  PROVE  RelayInv' /\ NoMissedMeeting'
  <1> USE DEF RelayInv
  <1> DEFINE new == [role |-> r, live |-> TRUE, old |-> FALSE, pc |-> "dial"]
  <1>1. /\ DOMAIN att \subseteq Attempts /\ DOMAIN att = 1..Len(att)
        /\ Len(att) \in Nat /\ att \in Seq(AttemptRec)
    BY AttemptsInDomain DEF RelayTypeOK, AttemptRec
  <1>2. /\ Len(att) < MaxAttempts /\ att' = Append(att, new) /\ new \in AttemptRec
        /\ sessions' = [sessions EXCEPT ![r] = Len(att) + 1]
        /\ UNCHANGED <<envVars, port, dead, relayPipeVars>>
    BY DEF Signal, AttemptRec
  <1>3. /\ DOMAIN att' = 1..(Len(att) + 1) /\ Len(att') = Len(att) + 1
        /\ att' \in Seq(AttemptRec) /\ att'[Len(att) + 1] = new
        /\ \A a \in DOMAIN att : att'[a] = att[a]
    BY <1>1, <1>2
  <1>4. Len(att) + 1 \in Attempts /\ Len(att) + 1 \in 0..MaxAttempts
    BY <1>1, <1>2, RelayAssumption DEF Attempts
  <1>5. RelayTypeOK'
    <2>1. sessions' \in [Roles -> 0..MaxAttempts]
      BY <1>2, <1>4 DEF RelayTypeOK
    <2>2. Len(att') <= MaxAttempts
      BY <1>1, <1>2, <1>3, RelayAssumption
    <2> QED
      BY <1>2, <1>3, <2>1, <2>2 DEF RelayTypeOK, AttemptRec, envVars, relayPipeVars
  <1>6. PairingSound' /\ PipesInStep'
    <2>1. \A a \in DOMAIN att : AttemptAt(a, "dial")' => AttemptAt(a, "dial")
      BY <1>3 DEF AttemptAt
    <2> QED
      BY <1>1, <1>2, <1>3, <2>1, SameBooks
  <1>7. InCharge'
    <2> SUFFICES ASSUME NEW a \in DOMAIN att', att'[a].live, att'[a].pc # "ended",
                        sessions'[att'[a].role] # a
                 PROVE  \E b \in DOMAIN att' : b > a /\ att'[b].role = att'[a].role
      BY DEF InCharge
    <2>1. sessions'[r] = Len(att) + 1 /\ \A q \in Roles : q # r => sessions'[q] = sessions[q]
      BY <1>2 DEF RelayTypeOK
    <2>2. a # Len(att) + 1 /\ a \in DOMAIN att /\ att'[a] = att[a] /\ att[a].role \in Roles
      BY <1>1, <1>3, <2>1, AttemptsInDomain DEF AttemptRec
    <2>3. CASE att[a].role = r
      <3>1. Len(att) + 1 \in DOMAIN att' /\ Len(att) + 1 > a
        BY <1>1, <1>3, <2>2
      <3> QED
        BY <1>3, <2>2, <2>3, <3>1
    <2>4. CASE att[a].role # r
      <3>1. PICK b \in DOMAIN att : b > a /\ att[b].role = att[a].role
        BY <2>1, <2>2, <2>4 DEF InCharge
      <3> QED
        BY <1>1, <1>3, <2>2, <3>1
    <2> QED
      BY <2>3, <2>4
  <1>8. NoMissedMeeting'
    BY <1>2 DEF NoMissedMeeting, Waiting, relayPipeVars
  <1> QED
    BY <1>5, <1>6, <1>7, <1>8

(* A lost control connection cancels the attempts of its node, and empties *)
(* its relay manager.                                                      *)
LEMMA LoseControlSafe ==
  ASSUME RelayInv, NoMissedMeeting, NEW r \in Roles, LoseControl(r)
  PROVE  RelayInv' /\ NoMissedMeeting'
  <1> USE DEF RelayInv
  <1>1. /\ faults < MaxFaults /\ faults' = faults + 1 /\ linked' = linked \ {r}
        /\ sessions' = [sessions EXCEPT ![r] = 0]
        /\ att' = [a \in DOMAIN att |->
                     IF att[a].role = r
                     THEN [att[a] EXCEPT !.live = FALSE, !.old = TRUE]
                     ELSE att[a]]
        /\ UNCHANGED <<record, port, dead, relayPipeVars>>
    BY DEF LoseControl
  <1>2. /\ DOMAIN att' = DOMAIN att /\ att' = [a \in DOMAIN att |-> att'[a]]
        /\ \A a \in DOMAIN att :
             /\ att'[a] \in AttemptRec /\ att'[a].role = att[a].role
             /\ att'[a].pc = att[a].pc
             /\ att'[a].live => att[a].live /\ att[a].role # r
    <2>1. DOMAIN att' = DOMAIN att /\ att' = [a \in DOMAIN att |-> att'[a]]
      BY <1>1
    <2>2. ASSUME NEW a \in DOMAIN att
          PROVE  /\ att'[a] \in AttemptRec /\ att'[a].role = att[a].role
                 /\ att'[a].pc = att[a].pc
                 /\ att'[a].live => att[a].live /\ att[a].role # r
      <3>1. att[a] \in AttemptRec
        BY AttemptsInDomain
      <3>2. CASE att[a].role = r
        <4>1. att'[a] = [att[a] EXCEPT !.live = FALSE, !.old = TRUE]
          BY <1>1, <3>2
        <4> QED
          BY <3>1, <4>1 DEF AttemptRec
      <3>3. CASE att[a].role # r
        <4>1. att'[a] = att[a]
          BY <1>1, <3>3
        <4> QED
          BY <3>1, <3>3, <4>1
      <3> QED
        BY <3>2, <3>3
    <2> QED
      BY <2>1, <2>2
  <1>3. att' \in Seq(AttemptRec) /\ Len(att') = Len(att)
    BY <1>2, AttemptsInPlace
  <1>4. RelayTypeOK'
    <2>1. sessions' \in [Roles -> 0..MaxAttempts]
      BY <1>1, AttemptsAreNumbers DEF RelayTypeOK
    <2>2. faults \in 0..MaxFaults /\ faults < MaxFaults /\ faults' = faults + 1
      BY <1>1 DEF RelayTypeOK
    <2>3. faults' \in 0..MaxFaults
      BY <2>2, RelayAssumption
    <2> QED
      BY <1>1, <1>3, <2>1, <2>3 DEF RelayTypeOK, AttemptRec, relayPipeVars
  <1>5. PairingSound' /\ PipesInStep'
    <2>1. \A a \in DOMAIN att : AttemptAt(a, "dial")' => AttemptAt(a, "dial")
      BY <1>2 DEF AttemptAt
    <2> QED
      BY <1>1, <1>2, <2>1, SameBooks
  <1>6. InCharge'
    <2>1. \A q \in Roles : q # r => sessions'[q] = sessions[q]
      BY <1>1 DEF RelayTypeOK
    <2>2. \A a \in DOMAIN att : att[a].role \in Roles
      BY AttemptsInDomain DEF AttemptRec
    <2> QED
      BY <1>2, <2>1, <2>2 DEF InCharge
  <1>7. NoMissedMeeting'
    BY <1>1 DEF NoMissedMeeting, Waiting, relayPipeVars
  <1> QED
    BY <1>4, <1>5, <1>6, <1>7

(* The deferred cleanupSession cancels the session it takes out of the     *)
(* map, so no live attempt loses its place there.                          *)
LEMMA CleanupSafe ==
  ASSUME RelayInv, NoMissedMeeting, NEW a \in Attempts, CleanupSession(a)
  PROVE  RelayInv' /\ NoMissedMeeting'
  <1> USE DEF RelayInv
  <1> DEFINE r == att[a].role
             hit == IF att[a].old THEN 0 ELSE sessions[r]
  <1>1. /\ a \in DOMAIN att
        /\ att' = [b \in DOMAIN att |->
                     IF b = a THEN [att[a] EXCEPT !.pc = "ended", !.live = FALSE,
                                                  !.old = TRUE]
                     ELSE IF b = hit THEN [att[b] EXCEPT !.live = FALSE]
                     ELSE att[b]]
        /\ sessions' = IF hit = 0 THEN sessions ELSE [sessions EXCEPT ![r] = 0]
        /\ port' = PortAfter(a)
        /\ UNCHANGED <<envVars, dead, relayPipeVars>>
    BY DEF CleanupSession, AttemptAt
  <1> HIDE DEF hit, r
  <1>2. /\ DOMAIN att' = DOMAIN att /\ att' = [b \in DOMAIN att |-> att'[b]]
        /\ \A b \in DOMAIN att :
             /\ att'[b] \in AttemptRec /\ att'[b].role = att[b].role
             /\ att'[b].live => att[b].live /\ b # hit
             /\ att'[b].pc \in {att[b].pc, "ended"}
    <2>1. DOMAIN att' = DOMAIN att /\ att' = [b \in DOMAIN att |-> att'[b]]
      BY <1>1
    <2>2. ASSUME NEW b \in DOMAIN att
          PROVE  /\ att'[b] \in AttemptRec /\ att'[b].role = att[b].role
                 /\ att'[b].live => att[b].live /\ b # hit
                 /\ att'[b].pc \in {att[b].pc, "ended"}
      <3>1. att[b] \in AttemptRec
        BY AttemptsInDomain
      <3>2. CASE b = a
        <4>1. att'[b] = [att[b] EXCEPT !.pc = "ended", !.live = FALSE, !.old = TRUE]
          BY <1>1, <3>2
        <4> QED
          BY <3>1, <4>1 DEF AttemptRec
      <3>3. CASE b # a /\ b = hit
        <4>1. att'[b] = [att[b] EXCEPT !.live = FALSE]
          BY <1>1, <3>3
        <4> QED
          BY <3>1, <4>1 DEF AttemptRec
      <3>4. CASE b # a /\ b # hit
        <4>1. att'[b] = att[b]
          BY <1>1, <3>4
        <4> QED
          BY <3>1, <3>4, <4>1
      <3> QED
        BY <3>2, <3>3, <3>4
    <2> QED
      BY <2>1, <2>2
  <1>3. att' \in Seq(AttemptRec) /\ Len(att') = Len(att)
    BY <1>2, AttemptsInPlace
  <1>4. r \in Roles
    BY <1>1, AttemptsInDomain DEF AttemptRec, r
  <1>5. RelayTypeOK'
    <2>1. sessions' \in [Roles -> 0..MaxAttempts] /\ port' \in 0..MaxAttempts
      BY <1>1, AttemptsAreNumbers DEF RelayTypeOK, PortAfter
    <2> QED
      BY <1>1, <1>3, <2>1 DEF RelayTypeOK, AttemptRec, relayPipeVars, envVars
  <1>6. PairingSound' /\ PipesInStep'
    <2>1. \A b \in DOMAIN att : AttemptAt(b, "dial")' => AttemptAt(b, "dial")
      BY <1>2 DEF AttemptAt
    <2> QED
      BY <1>1, <1>2, <2>1, SameBooks
  <1>7. InCharge'
    <2>1. CASE hit = 0
      BY <1>1, <1>2, <2>1 DEF InCharge
    <2>2. CASE hit # 0
      <3>1. hit = sessions[r]
        BY <2>2 DEF hit
      <3>2. \A q \in Roles : q # r => sessions'[q] = sessions[q]
        BY <1>1, <2>2 DEF RelayTypeOK
      <3>3. \A b \in DOMAIN att : att[b].role \in Roles
        BY AttemptsInDomain DEF AttemptRec
      <3> QED
        BY <1>2, <3>1, <3>2, <3>3 DEF InCharge
    <2> QED
      BY <2>1, <2>2
  <1>8. NoMissedMeeting'
    BY <1>1 DEF NoMissedMeeting, Waiting, relayPipeVars
  <1> QED
    BY <1>5, <1>6, <1>7, <1>8

(* A new connection (HandleRelay, server.go:961) is in no channel and in   *)
(* no pipe; it takes the empty place of the entry or ends the wait that    *)
(* the entry names.                                                        *)
LEMMA DialledBooks ==
  ASSUME RelayInv, NoMissedMeeting, NEW a \in Attempts, RelayDialled(a)
  PROVE  /\ conn' \in [Attempts -> ConnStates] /\ relayPending' \in 0..MaxAttempts
         /\ handed' \in [Attempts -> 0..MaxAttempts]
         /\ DOMAIN att' = DOMAIN att /\ a \in DOMAIN att /\ att'[a].pc # "dial"
           => PairingSound' /\ PipesInStep' /\ NoMissedMeeting'
  <1> USE AttemptsAreNumbers DEF RelayInv
  <1>1. /\ AttemptAt(a, "dial") /\ HandleRelay(a)
        /\ UNCHANGED <<copying, peer, stolen>>
    BY DEF RelayDialled
  <1>2. conn[a] = "none" /\ peer[a] = 0 /\ handed[a] = 0
    BY <1>1 DEF PipesInStep, RelayTypeOK
  <1>3. a # 0 /\ \A b \in Attempts : handed[b] # a
    BY <1>2 DEF PipesInStep
  <1>4. relayPending # a
    BY <1>2, <1>3 DEF PairingSound
  <1>t. /\ conn \in [Attempts -> ConnStates] /\ relayPending \in 0..MaxAttempts
        /\ handed \in [Attempts -> 0..MaxAttempts]
        /\ peer \in [Attempts -> 0..MaxAttempts]
    BY DEF RelayTypeOK
  <1>d. \A b \in Attempts : b # a =>
          ((b \notin DOMAIN att' \/ AttemptAt(b, "dial")') =>
               (b \notin DOMAIN att \/ AttemptAt(b, "dial")))
    <2>1. \A b \in DOMAIN att : b # a => att'[b] = att[b]
      BY DEF RelayDialled, Moved
    <2>2. DOMAIN att' = DOMAIN att
      BY DEF RelayDialled, Moved
    <2> QED
      BY <2>1, <2>2 DEF AttemptAt
  <1>5. CASE ~SomeoneWaits
    <2>1. /\ relayPending = 0 /\ relayPending' = a /\ handed' = handed /\ peer' = peer
          /\ conn'[a] = "wait" /\ \A b \in Attempts : b # a => conn'[b] = conn[b]
          /\ conn' \in [Attempts -> ConnStates] /\ stolen' = stolen
      BY <1>1, <1>5, <1>t DEF HandleRelay, SomeoneWaits, ConnStates
    <2>2. PairingSound'
      BY <1>2, <2>1 DEF PairingSound
    <2>3. ASSUME DOMAIN att' = DOMAIN att, a \in DOMAIN att, att'[a].pc # "dial"
          PROVE  PipesInStep'
      <3> SUFFICES ASSUME NEW b \in Attempts
                   PROVE  /\ b \notin DOMAIN att' \/ AttemptAt(b, "dial")'
                               => conn'[b] = "none"
                          /\ handed'[b] # 0 =>
                               /\ conn'[b] \in {"wait", "timeout", "closed"}
                               /\ conn'[handed'[b]] = "handed"
                          /\ peer'[b] # 0 <=> conn'[b] = "piped"
        BY DEF PipesInStep
      <3>1. b \notin DOMAIN att' \/ AttemptAt(b, "dial")' => conn'[b] = "none"
        BY <1>d, <2>1, <2>3 DEF PipesInStep, AttemptAt
      <3>2. handed'[b] # 0 => /\ conn'[b] \in {"wait", "timeout", "closed"}
                              /\ conn'[handed'[b]] = "handed"
        BY <1>2, <1>3, <1>t, <2>1 DEF PipesInStep
      <3>3. peer'[b] # 0 <=> conn'[b] = "piped"
        BY <1>2, <2>1 DEF PipesInStep
      <3> QED
        BY <3>1, <3>2, <3>3
    <2>4. NoMissedMeeting'
      BY <2>1 DEF NoMissedMeeting, Waiting
    <2> QED
      BY <2>1, <2>2, <2>3, <2>4, <1>t
  <1>6. CASE SomeoneWaits
    <2> DEFINE w == relayPending
    <2>1. /\ w # 0 /\ w \in Attempts /\ relayPending' = 0 /\ peer' = peer
          /\ stolen' = stolen
          /\ conn'[a] = "handed" /\ \A b \in Attempts : b # a => conn'[b] = conn[b]
          /\ conn' \in [Attempts -> ConnStates]
          /\ handed' \in [Attempts -> 0..MaxAttempts]
          /\ handed'[w] = a /\ \A b \in Attempts : b # w => handed'[b] = handed[b]
      BY <1>1, <1>6, <1>t DEF HandleRelay, SomeoneWaits, EntryAfter, ConnStates
    <2>2. conn[w] \in {"wait", "timeout"} /\ handed[w] = 0 /\ w # a
      BY <1>4, <2>1 DEF PairingSound
    <2>3. PairingSound'
      <3>1. \A b \in Attempts : peer'[b] # 0 => peer'[peer'[b]] = b /\ peer'[b] # b
        BY <2>1 DEF PairingSound
      <3>2. ASSUME NEW b \in Attempts, NEW c \in Attempts, b # c, handed'[b] # 0
            PROVE  handed'[b] # handed'[c] /\ peer'[handed'[b]] = 0
        <4>1. CASE b = w
          BY <1>2, <1>3, <2>1, <3>2, <4>1
        <4>2. CASE b # w
          <5>1. handed'[b] = handed[b] /\ handed[b] # a
            BY <1>3, <2>1, <4>2
          <5> QED
            BY <2>1, <3>2, <5>1 DEF PairingSound
        <4> QED
          BY <4>1, <4>2
      <3> QED
        BY <2>1, <3>1, <3>2 DEF PairingSound
    <2>4. ASSUME DOMAIN att' = DOMAIN att, a \in DOMAIN att, att'[a].pc # "dial"
          PROVE  PipesInStep'
      <3> SUFFICES ASSUME NEW b \in Attempts
                   PROVE  /\ b \notin DOMAIN att' \/ AttemptAt(b, "dial")'
                               => conn'[b] = "none"
                          /\ handed'[b] # 0 =>
                               /\ conn'[b] \in {"wait", "timeout", "closed"}
                               /\ conn'[handed'[b]] = "handed"
                          /\ peer'[b] # 0 <=> conn'[b] = "piped"
        BY DEF PipesInStep
      <3>1. b \notin DOMAIN att' \/ AttemptAt(b, "dial")' => conn'[b] = "none"
        BY <1>d, <2>1, <2>4 DEF PipesInStep, AttemptAt
      <3>2. handed'[b] # 0 => /\ conn'[b] \in {"wait", "timeout", "closed"}
                              /\ conn'[handed'[b]] = "handed"
        <4>1. CASE b = w
          BY <2>1, <2>2, <4>1
        <4>2. CASE b # w
          BY <1>2, <1>3, <1>t, <2>1, <4>2 DEF PipesInStep
        <4> QED
          BY <4>1, <4>2
      <3>3. peer'[b] # 0 <=> conn'[b] = "piped"
        BY <1>2, <2>1 DEF PipesInStep
      <3> QED
        BY <3>1, <3>2, <3>3
    <2>5. NoMissedMeeting'
      <3> SUFFICES ASSUME NEW b \in Attempts, conn'[b] = "wait", handed'[b] = 0
                   PROVE  b \in stolen'
        BY DEF NoMissedMeeting, Waiting
      <3>1. b # w /\ b # a
        BY <1>3, <2>1
      <3>2. conn[b] = "wait" /\ handed[b] = 0
        BY <2>1, <3>1
      <3> QED
        BY <2>1, <3>1, <3>2 DEF NoMissedMeeting, Waiting
    <2> QED
      BY <2>1, <2>3, <2>4, <2>5, <1>t
  <1> QED
    BY <1>5, <1>6

\* A dial that returns, answered or not, keeps the invariants.
LEMMA DialledSafe ==
  ASSUME RelayInv, NoMissedMeeting, NEW a \in Attempts, RelayDialled(a)
  PROVE  RelayInv' /\ NoMissedMeeting'
  <1> USE DEF RelayInv
  <1>1. /\ a \in DOMAIN att /\ att[a].pc = "dial"
        /\ UNCHANGED <<envVars, sessions, copying, peer, stolen>>
    BY DEF RelayDialled, AttemptAt
  <1>2. PICK pc \in {"up", "exit"} : att' = Moved(a, pc)
    BY DEF RelayDialled
  <1>3. /\ dead' \subseteq Attempts /\ port' \in 0..MaxAttempts
    BY AttemptsAreNumbers DEF RelayDialled, RelayTypeOK
  <1>4. /\ att' \in Seq(AttemptRec) /\ Len(att') = Len(att)
        /\ DOMAIN att' = DOMAIN att
        /\ \A b \in DOMAIN att : b # a => att'[b] = att[b]
        /\ att'[a].pc = pc /\ att'[a].role = att[a].role
        /\ att'[a].live = att[a].live
    BY <1>1, <1>2, MovedInPlace
  <1>5. /\ conn' \in [Attempts -> ConnStates] /\ relayPending' \in 0..MaxAttempts
        /\ handed' \in [Attempts -> 0..MaxAttempts]
        /\ PairingSound' /\ PipesInStep' /\ NoMissedMeeting'
    BY <1>1, <1>4, DialledBooks
  <1>6. RelayTypeOK'
    BY <1>1, <1>3, <1>4, <1>5 DEF RelayTypeOK, AttemptRec, envVars
  <1>7. InCharge'
    BY <1>1, <1>4, SameCharge
  <1> QED
    BY <1>5, <1>6, <1>7

(* The pipe joins the waiter and the connection in its channel, neither of *)
(* which is in a pipe or the waiter of the entry.                          *)
LEMMA PipeStartsSafe ==
  ASSUME RelayInv, NoMissedMeeting, NEW a \in Attempts, RelayPipeStarts(a)
  PROVE  RelayInv' /\ NoMissedMeeting'
  <1> USE AttemptsAreNumbers DEF RelayInv
  <1> DEFINE b == handed[a]
  <1>t. /\ conn \in [Attempts -> ConnStates] /\ relayPending \in 0..MaxAttempts
        /\ handed \in [Attempts -> 0..MaxAttempts] /\ copying \subseteq Attempts
        /\ peer \in [Attempts -> 0..MaxAttempts]
    BY DEF RelayTypeOK
  <1>1. conn[a] = "wait" /\ b # 0 /\ b \in Attempts
    BY <1>t DEF RelayPipeStarts
  <1>2. conn[b] = "handed" /\ a # b
    BY <1>1 DEF PipesInStep
  <1>3. peer[a] = 0 /\ peer[b] = 0 /\ handed[b] = 0
    BY <1>1, <1>2, <1>t DEF PipesInStep
  <1>4. relayPending \notin {a, b}
    BY <1>1, <1>2 DEF PairingSound
  <1>5. ASSUME NEW c \in Attempts, peer[c] \in {a, b}
        PROVE  FALSE
    <2>1. peer[c] # 0 /\ c # 0
      BY <1>1, <1>5
    <2>2. peer[peer[c]] = c
      BY <2>1 DEF PairingSound
    <2> QED
      BY <1>3, <1>5, <2>1, <2>2
  <1>6. \A c \in Attempts : c # a => handed[c] # b
    BY <1>1 DEF PairingSound
  <1>7. \A c \in Attempts : handed[c] # a
    BY <1>1 DEF PipesInStep
  <1>8. /\ conn'[a] = "piped" /\ conn'[b] = "piped"
        /\ \A c \in Attempts : c # a /\ c # b => conn'[c] = conn[c] /\ peer'[c] = peer[c]
        /\ peer'[a] = b /\ peer'[b] = a
        /\ handed'[a] = 0 /\ \A c \in Attempts : c # a => handed'[c] = handed[c]
        /\ conn' \in [Attempts -> ConnStates]
        /\ handed' \in [Attempts -> 0..MaxAttempts]
        /\ peer' \in [Attempts -> 0..MaxAttempts] /\ copying' \subseteq Attempts
    BY <1>1, <1>2, <1>t DEF RelayPipeStarts, ConnStates
  <1>9. UNCHANGED <<envVars, attemptVars, dead, relayPending, stolen>>
    BY DEF RelayPipeStarts
  <1> HIDE DEF b
  <1>10. RelayTypeOK'
    BY <1>8, <1>9 DEF RelayTypeOK, envVars, attemptVars
  <1>11. PairingSound'
    <2>1. ASSUME NEW c \in Attempts, peer'[c] # 0
          PROVE  peer'[peer'[c]] = c /\ peer'[c] # c
      <3>1. CASE c \in {a, b}
        BY <1>2, <1>8, <3>1
      <3>2. CASE c \notin {a, b}
        <4>1. peer'[c] = peer[c] /\ peer[c] \in Attempts /\ peer[c] \notin {a, b}
          BY <1>5, <1>8, <1>t, <2>1, <3>2
        <4> QED
          BY <1>8, <2>1, <4>1 DEF PairingSound
      <3> QED
        BY <3>1, <3>2
    <2>2. ASSUME NEW c \in Attempts, NEW d \in Attempts, c # d, handed'[c] # 0
          PROVE  handed'[c] # handed'[d] /\ peer'[handed'[c]] = 0
      <3>1. c # a /\ handed'[c] = handed[c] /\ handed[c] \in Attempts
        BY <1>8, <1>t, <2>2
      <3>2. handed[c] \notin {a, b}
        BY <1>6, <1>7, <3>1
      <3>3. handed[c] # handed[d] /\ peer[handed[c]] = 0
        BY <2>2, <3>1 DEF PairingSound
      <3>4. handed'[d] \in {0, handed[d]}
        BY <1>8
      <3> QED
        BY <1>8, <2>2, <3>1, <3>2, <3>3, <3>4
    <2>3. relayPending' # 0 => /\ conn'[relayPending'] \in {"wait", "timeout"}
                               /\ handed'[relayPending'] = 0
      BY <1>4, <1>8, <1>9, <1>t DEF PairingSound
    <2> QED
      BY <2>1, <2>2, <2>3 DEF PairingSound
  <1>12. InCharge'
    BY <1>9 DEF InCharge, attemptVars
  <1>13. PipesInStep'
    <2> SUFFICES ASSUME NEW c \in Attempts
                 PROVE  /\ c \notin DOMAIN att' \/ AttemptAt(c, "dial")'
                             => conn'[c] = "none"
                        /\ handed'[c] # 0 =>
                             /\ conn'[c] \in {"wait", "timeout", "closed"}
                             /\ conn'[handed'[c]] = "handed"
                        /\ peer'[c] # 0 <=> conn'[c] = "piped"
      BY DEF PipesInStep
    <2>1. c \notin DOMAIN att' \/ AttemptAt(c, "dial")' => conn'[c] = "none"
      <3>1. att' = att
        BY <1>9 DEF attemptVars
      <3>2. AttemptAt(c, "dial")' <=> AttemptAt(c, "dial")
        BY <3>1 DEF AttemptAt
      <3>3. c \notin DOMAIN att \/ AttemptAt(c, "dial") => conn[c] = "none"
        BY DEF PipesInStep
      <3>4. conn[c] = "none" => conn'[c] = "none"
        BY <1>1, <1>2, <1>8
      <3> QED
        BY <3>1, <3>2, <3>3, <3>4
    <2>2. handed'[c] # 0 => /\ conn'[c] \in {"wait", "timeout", "closed"}
                            /\ conn'[handed'[c]] = "handed"
      BY <1>3, <1>6, <1>7, <1>8, <1>t DEF PipesInStep
    <2>3. peer'[c] # 0 <=> conn'[c] = "piped"
      BY <1>1, <1>8 DEF PipesInStep
    <2> QED
      BY <2>1, <2>2, <2>3
  <1>14. NoMissedMeeting'
    BY <1>8, <1>9 DEF NoMissedMeeting, Waiting
  <1> QED
    BY <1>10, <1>11, <1>12, <1>13, <1>14

(* The timeout of a wait, before and after it has the lock: whoever waited *)
(* under the entry it deletes is in stolen.                                *)
LEMMA TimeoutSafe ==
  ASSUME RelayInv, NoMissedMeeting, NEW a \in Attempts,
         WaitTimesOut(a) \/ TimeoutDeletes(a)
  PROVE  RelayInv' /\ NoMissedMeeting'
  <1> USE AttemptsAreNumbers DEF RelayInv
  <1>t. /\ conn \in [Attempts -> ConnStates] /\ relayPending \in 0..MaxAttempts
        /\ handed \in [Attempts -> 0..MaxAttempts]
        /\ stolen \subseteq Attempts
        /\ dead \subseteq Attempts
    BY DEF RelayTypeOK
  <1>1. /\ conn[a] \in {"wait", "timeout"}
        /\ conn'[a] \in {"timeout", "closed"}
        /\ \A c \in Attempts : c # a => conn'[c] = conn[c]
        /\ conn' \in [Attempts -> ConnStates]
        /\ UNCHANGED <<envVars, attemptVars, handed, copying, peer>>
    BY <1>t DEF WaitTimesOut, TimeoutDeletes, ConnStates
  <1>2. /\ relayPending' # 0 => relayPending' = relayPending /\ conn'[a] = "timeout"
        /\ relayPending' \in 0..MaxAttempts
        /\ stolen' \subseteq Attempts /\ dead' \subseteq Attempts
        /\ (Waiting \cap ({relayPending} \ {a})) \subseteq {relayPending'} \cup stolen'
        /\ stolen \subseteq stolen'
    <2>1. CASE WaitTimesOut(a)
      BY <1>t, <2>1 DEF WaitTimesOut, Waiting
    <2>2. CASE TimeoutDeletes(a)
      <3>1. relayPending' = 0 /\ stolen' = stolen \cup ({relayPending} \ {0, a})
        BY <2>2 DEF TimeoutDeletes
      <3>2. \A c \in Waiting : c # 0
        BY DEF Waiting
      <3>3. dead' \subseteq Attempts
        BY <1>t, <2>2 DEF TimeoutDeletes
      <3> QED
        BY <1>t, <3>1, <3>2, <3>3
    <2> QED
      BY <2>1, <2>2
  <1>3. RelayTypeOK'
    BY <1>1, <1>2 DEF RelayTypeOK, envVars, attemptVars
  <1>4. PairingSound'
    BY <1>1, <1>2 DEF PairingSound
  <1>5. InCharge'
    BY <1>1 DEF InCharge, attemptVars
  <1>6. PipesInStep'
    <2> SUFFICES ASSUME NEW c \in Attempts
                 PROVE  /\ c \notin DOMAIN att' \/ AttemptAt(c, "dial")'
                             => conn'[c] = "none"
                        /\ handed'[c] # 0 =>
                             /\ conn'[c] \in {"wait", "timeout", "closed"}
                             /\ conn'[handed'[c]] = "handed"
                        /\ peer'[c] # 0 <=> conn'[c] = "piped"
      BY DEF PipesInStep
    <2>1. c \notin DOMAIN att' \/ AttemptAt(c, "dial")' => conn'[c] = "none"
      BY <1>1 DEF PipesInStep, AttemptAt, attemptVars
    <2>2. handed'[c] # 0 => /\ conn'[c] \in {"wait", "timeout", "closed"}
                            /\ conn'[handed'[c]] = "handed"
      BY <1>1, <1>t DEF PipesInStep
    <2>3. peer'[c] # 0 <=> conn'[c] = "piped"
      BY <1>1 DEF PipesInStep
    <2> QED
      BY <2>1, <2>2, <2>3
  <1>7. NoMissedMeeting'
    <2> SUFFICES ASSUME NEW c \in Attempts, conn'[c] = "wait", handed'[c] = 0
                 PROVE  c \in {relayPending'} \cup stolen'
      BY DEF NoMissedMeeting, Waiting
    <2>1. c # a /\ c \in Waiting
      BY <1>1 DEF Waiting
    <2> QED
      BY <1>2, <2>1 DEF NoMissedMeeting
  <1> QED
    BY <1>3, <1>4, <1>5, <1>6, <1>7

(* The end of a pipe closes two connections that were each other's peer.   *)
LEMMA PipeEndsSafe ==
  ASSUME RelayInv, NoMissedMeeting, NEW a \in Attempts, RelayPipeEnds(a)
  PROVE  RelayInv' /\ NoMissedMeeting'
  <1> USE AttemptsAreNumbers DEF RelayInv
  <1> DEFINE b == peer[a]
  <1>t. /\ conn \in [Attempts -> ConnStates] /\ relayPending \in 0..MaxAttempts
        /\ handed \in [Attempts -> 0..MaxAttempts]
        /\ peer \in [Attempts -> 0..MaxAttempts] /\ dead \subseteq Attempts
    BY DEF RelayTypeOK
  <1>1. conn[a] = "piped" /\ b # 0 /\ b \in Attempts
    BY <1>t DEF RelayPipeEnds, PipesInStep
  <1>2. peer[b] = a /\ a # b
    BY <1>1 DEF PairingSound
  <1>3. conn[b] = "piped"
    BY <1>1, <1>2 DEF PipesInStep
  <1>4. \A c \in Attempts : c \notin {a, b} => peer[c] \notin {a, b}
    BY <1>1, <1>2 DEF PairingSound
  <1>5. /\ conn'[a] = "closed" /\ conn'[b] = "closed"
        /\ \A c \in Attempts : c # a /\ c # b => conn'[c] = conn[c] /\ peer'[c] = peer[c]
        /\ peer'[a] = 0 /\ peer'[b] = 0
        /\ conn' \in [Attempts -> ConnStates]
        /\ peer' \in [Attempts -> 0..MaxAttempts] /\ dead' \subseteq Attempts
        /\ UNCHANGED <<envVars, attemptVars, relayPending, handed, copying, stolen>>
    BY <1>1, <1>2, <1>t DEF RelayPipeEnds, ConnStates
  <1> HIDE DEF b
  <1>6. RelayTypeOK'
    BY <1>5 DEF RelayTypeOK, envVars, attemptVars
  <1>7. \A c \in Attempts : handed[c] # 0 =>
          handed[c] \in Attempts /\ handed[c] \notin {a, b}
    BY <1>1, <1>3, <1>t DEF PipesInStep
  <1>8. PairingSound'
    <2>1. ASSUME NEW c \in Attempts, peer'[c] # 0
          PROVE  peer'[peer'[c]] = c /\ peer'[c] # c
      <3>1. c \notin {a, b} /\ peer'[c] = peer[c] /\ peer[c] \in Attempts
        BY <1>5, <1>t, <2>1
      <3>2. peer[c] \notin {a, b}
        BY <1>4, <3>1
      <3> QED
        BY <1>5, <2>1, <3>1, <3>2 DEF PairingSound
    <2>2. ASSUME NEW c \in Attempts, NEW d \in Attempts, c # d, handed'[c] # 0
          PROVE  handed'[c] # handed'[d] /\ peer'[handed'[c]] = 0
      BY <1>5, <1>7, <2>2, ZenonT(60) DEF PairingSound
    <2>3. relayPending' # 0 => /\ conn'[relayPending'] \in {"wait", "timeout"}
                               /\ handed'[relayPending'] = 0
      BY <1>1, <1>3, <1>5, <1>t DEF PairingSound
    <2> QED
      BY <2>1, <2>2, <2>3 DEF PairingSound
  <1>9. InCharge'
    BY <1>5 DEF InCharge, attemptVars
  <1>10. PipesInStep'
    <2> SUFFICES ASSUME NEW c \in Attempts
                 PROVE  /\ c \notin DOMAIN att' \/ AttemptAt(c, "dial")'
                             => conn'[c] = "none"
                        /\ handed'[c] # 0 =>
                             /\ conn'[c] \in {"wait", "timeout", "closed"}
                             /\ conn'[handed'[c]] = "handed"
                        /\ peer'[c] # 0 <=> conn'[c] = "piped"
      BY DEF PipesInStep
    <2>1. c \notin DOMAIN att' \/ AttemptAt(c, "dial")' => conn'[c] = "none"
      BY <1>1, <1>3, <1>5 DEF PipesInStep, AttemptAt, attemptVars
    <2>2. handed'[c] # 0 => /\ conn'[c] \in {"wait", "timeout", "closed"}
                            /\ conn'[handed'[c]] = "handed"
      BY <1>5, <1>7 DEF PipesInStep
    <2>3. peer'[c] # 0 <=> conn'[c] = "piped"
      BY <1>5 DEF PipesInStep
    <2> QED
      BY <2>1, <2>2, <2>3
  <1>11. NoMissedMeeting'
    BY <1>5 DEF NoMissedMeeting, Waiting
  <1> QED
    BY <1>6, <1>8, <1>9, <1>10, <1>11

(* Steps that change neither an attempt nor the books.                     *)
LEMMA QuietRelayStep ==
  ASSUME RelayInv, NoMissedMeeting,
         UNCHANGED <<attemptVars, conn, relayPending, handed, peer, stolen>>,
         record' \in {"none", "live", "deleted"}, linked' \subseteq Roles,
         faults' \in 0..MaxFaults, dead' \subseteq Attempts,
         copying' \subseteq Attempts
  PROVE  RelayInv' /\ NoMissedMeeting'
  <1> USE DEF RelayInv, attemptVars
  <1>1. RelayTypeOK'
    BY DEF RelayTypeOK
  <1>2. PairingSound' /\ NoMissedMeeting'
    BY DEF PairingSound, NoMissedMeeting, Waiting
  <1>3. InCharge' /\ PipesInStep'
    BY DEF InCharge, PipesInStep, AttemptAt
  <1> QED
    BY <1>1, <1>2, <1>3

\* Every step keeps the relay's invariants.
LEMMA RelayInvNext ==
  RelayInv /\ NoMissedMeeting /\ [RelayNext]_relayVars
    => RelayInv' /\ NoMissedMeeting'
  <1> SUFFICES ASSUME RelayInv, NoMissedMeeting, [RelayNext]_relayVars
               PROVE  RelayInv' /\ NoMissedMeeting'
    OBVIOUS
  <1>t. /\ record \in {"none", "live", "deleted"} /\ linked \subseteq Roles
        /\ faults \in 0..MaxFaults /\ dead \subseteq Attempts
        /\ copying \subseteq Attempts
    BY DEF RelayInv, RelayTypeOK
  <1>1. CASE Create \/ Delete
    BY <1>1, <1>t, QuietRelayStep DEF Create, Delete, relayPipeVars
  <1>2. CASE \E r \in Roles : Signal(r)
    BY <1>2, SignalSafe
  <1>3. CASE \E r \in Roles : LoseControl(r)
    BY <1>3, LoseControlSafe
  <1>4. CASE \E r \in Roles : Reconnect(r)
    BY <1>4, <1>t, QuietRelayStep DEF Reconnect, relayPipeVars
  <1>5. CASE \E a \in Attempts : RelayDialled(a)
    BY <1>5, DialledSafe
  <1>6. CASE \E a \in Attempts : RelayDialFails(a) \/ ContextDone(a) \/ MuxDone(a)
    <2> PICK a \in Attempts : RelayDialFails(a) \/ ContextDone(a) \/ MuxDone(a)
      BY <1>6
    <2>1. /\ a \in DOMAIN att /\ att[a].pc # "ended" /\ att' = Moved(a, "exit")
          /\ UNCHANGED <<envVars, sessions, port, dead, relayPipeVars>>
      BY DEF RelayDialFails, ContextDone, MuxDone, AttemptAt
    <2> QED
      BY <2>1, AttemptMoves
  <1>7. CASE \E a \in Attempts : CleanupSession(a)
    BY <1>7, CleanupSafe
  <1>8. CASE \E a \in Attempts : RelayPipeStarts(a)
    BY <1>8, PipeStartsSafe
  <1>9. CASE \E a \in Attempts : WaitTimesOut(a) \/ TimeoutDeletes(a)
    BY <1>9, TimeoutSafe
  <1>10. CASE \E a \in Attempts : RelayPipeEnds(a)
    BY <1>10, PipeEndsSafe
  <1>11. CASE \E a \in Attempts : CopyEnds(a)
    BY <1>11, <1>t, QuietRelayStep DEF CopyEnds, envVars
  <1>12. CASE \E a \in Attempts : ConnectionDies(a)
    <2> PICK a \in Attempts : ConnectionDies(a)
      BY <1>12
    <2>1. faults' \in 0..MaxFaults
      BY <1>t, RelayAssumption DEF ConnectionDies
    <2> QED
      BY <1>t, <2>1, QuietRelayStep DEF ConnectionDies, relayPipeVars
  <1>13. CASE UNCHANGED relayVars
    BY <1>13, <1>t, QuietRelayStep DEF relayVars, relayPipeVars, envVars
  <1> QED
    BY <1>1, <1>2, <1>3, <1>4, <1>5, <1>6, <1>7, <1>8, <1>9, <1>10, <1>11,
       <1>12, <1>13 DEF RelayNext, AttemptStep, ServerStep

(* The books of HandleRelay (session/server.go:961) and the charge of a    *)
(* session (handler/relay.go): a pipe joins two connections and each with  *)
(* the other only, a connection is in one channel at most, and a live      *)
(* attempt is in its manager's map or was replaced, through any number of  *)
(* signals, faults, timeouts and clean-ups.                                *)
THEOREM RelayInvariant == RelaySpec => []RelayInv
  <1>1. RelayInit => RelayInv /\ NoMissedMeeting
    BY RelayInvInit
  <1>2. RelayInv /\ NoMissedMeeting /\ [RelayNext]_relayVars
          => RelayInv' /\ NoMissedMeeting'
    BY RelayInvNext
  <1> QED
    BY <1>1, <1>2, PTL DEF RelaySpec

(* Two connections of a session never wait side by side (server.go:961),   *)
(* except where the timeout of an earlier wait deleted the entry of a      *)
(* later one.                                                              *)
THEOREM MeetingsAreNotMissed == RelaySpec => []NoMissedMeeting
  <1>1. RelayInit => RelayInv /\ NoMissedMeeting
    BY RelayInvInit
  <1>2. RelayInv /\ NoMissedMeeting /\ [RelayNext]_relayVars
          => RelayInv' /\ NoMissedMeeting'
    BY RelayInvNext
  <1> QED
    BY <1>1, <1>2, PTL DEF RelaySpec

-----------------------------------------------------------------------------
(* External plugins.                                                       *)

CallRec == [pc : {"none", "found", "set", "wait", "clear", "over"},
            stream : 0..MaxStreams, state : 0..MaxStates, got : 0..MaxCalls]

(* The numbers of streams, calls and registrations.                        *)
LEMMA HostNumbers ==
  /\ MaxStreams \in Nat /\ MaxStates \in Nat /\ MaxCalls \in Nat
  /\ MaxEvents \in Nat /\ QueueCap \in Nat /\ QueueCap > 0
  /\ 0 \in 0..MaxStreams /\ 0 \in 0..MaxStates /\ 0 \in 0..MaxCalls
  /\ Streams \subseteq 0..MaxStreams /\ Calls \subseteq 0..MaxCalls
  /\ \A s \in 0..MaxStreams : s # 0 => s \in Streams
  /\ \A c \in 0..MaxCalls : c # 0 => c \in Calls
  /\ \A r \in 0..MaxStates : r # 0 => r \in 1..MaxStates
  /\ 0 \notin Streams /\ 0 \notin Calls
  BY PluginHostAssumption DEF Streams, Calls

(* What the map and the streams say of each other, and what the calls and  *)
(* the requests do.                                                        *)
StreamPart == BroadcastIsSafe /\ StreamsInStep
CallPart == OwnResult /\ CallsInStep

\* The plugin invariant by its parts.
LEMMA PluginParts == PluginInv <=> HostTypeOK /\ StreamPart /\ CallPart
  BY DEF PluginInv, StreamPart, CallPart

\* The fields of one call.
LEMMA CallTypes ==
  ASSUME HostTypeOK
  PROVE  /\ call \in [Calls -> CallRec]
         /\ \A c \in Calls : call[c] \in CallRec
         /\ Busy \subseteq Calls
  BY DEF HostTypeOK, CallRec, Busy

\* The initial states satisfy the plugin invariant.
LEMMA PluginInvInit == HostInit => PluginInv
  <1> SUFFICES ASSUME HostInit PROVE PluginInv
    OBVIOUS
  <1> USE HostNumbers DEF HostInit
  <1>1. NoCall \in CallRec
    BY DEF NoCall, CallRec
  <1>2. HostTypeOK
    <2>1. \A s \in Streams : queue[s] = <<>>
      OBVIOUS
    <2>2. /\ queue \in [Streams -> Seq(0..MaxCalls)]
          /\ \A s \in Streams : Len(queue[s]) <= QueueCap
      BY <2>1
    <2>3. call \in [Calls -> CallRec]
      BY <1>1
    <2>4. replaced \in BOOLEAN
      OBVIOUS
    <2>5. /\ states \in 0..MaxStates
          /\ resultCh \in [1..MaxStates -> 0..MaxCalls]
          /\ subscriber \in 0..MaxStreams
          /\ stream \in [Streams -> {"none", "loop", "exit", "close", "over"}]
          /\ open \subseteq Streams /\ cut \subseteq Streams
          /\ running \subseteq Calls /\ mixed \subseteq Calls
          /\ events \in 0..MaxEvents
          /\ crash \in {"none", "close", "send"}
      OBVIOUS
    <2> QED
      BY <2>2, <2>3, <2>4, <2>5, Zenon DEF HostTypeOK, CallRec
  <1>3. BroadcastIsSafe /\ StreamsInStep
    BY DEF BroadcastIsSafe, StreamsInStep
  <1>4. \A c \in Calls : call[c].pc = "none" /\ call[c].got = 0
    BY DEF NoCall
  <1>5. OwnResult /\ CallsInStep
    BY <1>4 DEF OwnResult, CallsInStep, Busy
  <1> QED
    BY <1>2, <1>3, <1>5 DEF PluginInv

(* Steps that leave the map and the streams alone.                         *)
LEMMA SameStreams ==
  ASSUME StreamPart, UNCHANGED <<subscriber, crash, open, replaced, cut, stream>>
  PROVE  StreamPart'
  BY DEF StreamPart, BroadcastIsSafe, StreamsInStep

(* Steps that leave the calls alone and add no request.                    *)
LEMMA SameCalls ==
  ASSUME HostTypeOK, CallPart, UNCHANGED <<call, mixed, resultCh>>,
         \A s \in Streams : stream[s] # "none" => stream'[s] # "none",
         Requests' \subseteq Requests
  PROVE  CallPart'
  <1> USE DEF CallPart
  <1>1. Busy' = Busy
    BY DEF Busy
  <1>2. OwnResult'
    BY DEF OwnResult
  <1>3. ASSUME NEW c \in Busy'
        PROVE  /\ call'[c].stream # 0 /\ stream'[call'[c].stream] # "none"
               /\ call'[c].state # 0
    <2>1. call[c].stream # 0 /\ stream[call[c].stream] # "none" /\ call[c].state # 0
      BY <1>1, <1>3 DEF CallsInStep
    <2>2. call[c].stream \in Streams
      BY <1>1, <1>3, <2>1, CallTypes, HostNumbers DEF CallRec
    <2> QED
      BY <2>1, <2>2
  <1>4. \A r \in 1..MaxStates : resultCh'[r] # 0 =>
           /\ resultCh'[r] \in Busy' /\ call'[resultCh'[r]].pc # "found"
           /\ call'[resultCh'[r]].state = r
    BY <1>1 DEF CallsInStep
  <1>5. \A c \in Busy' \ mixed' : Busy' = {c} /\ Requests' \subseteq {c}
    BY <1>1 DEF CallsInStep
  <1>6. CallsInStep'
    BY <1>3, <1>4, <1>5 DEF CallsInStep
  <1> QED
    BY <1>2, <1>6

(* An open call moves on, is open still, and sends its request at most.    *)
LEMMA CallMoves ==
  ASSUME HostTypeOK, CallPart, NEW c \in Busy, NEW rec \in CallRec,
         rec.pc \in {"set", "wait", "clear"}, rec.stream = call[c].stream,
         rec.state = call[c].state, rec.got \in {0, call[c].got},
         call' = [call EXCEPT ![c] = rec], UNCHANGED <<mixed, stream>>,
         Requests' \subseteq Requests \cup {c},
         \A r \in 1..MaxStates :
            resultCh'[r] = resultCh[r] \/ (r = call[c].state /\ resultCh'[r] = c)
  PROVE  CallPart'
  <1> USE CallTypes DEF CallPart
  <1>1. /\ call'[c] = rec /\ c \in Calls
        /\ \A d \in Calls : d # c => call'[d] = call[d]
    OBVIOUS
  <1>2. Busy' = Busy
    BY <1>1 DEF Busy
  <1>3. OwnResult'
    BY <1>1 DEF OwnResult
  <1>4. ASSUME NEW d \in Busy'
        PROVE  /\ call'[d].stream # 0 /\ stream'[call'[d].stream] # "none"
               /\ call'[d].state # 0
    BY <1>1, <1>2, <1>4 DEF CallsInStep
  <1>5. ASSUME NEW r \in 1..MaxStates, resultCh'[r] # 0
        PROVE  /\ resultCh'[r] \in Busy' /\ call'[resultCh'[r]].pc # "found"
               /\ call'[resultCh'[r]].state = r
    <2>1. CASE resultCh'[r] = c
      <3>1. call[c].state = r
        BY <1>5, <2>1 DEF CallsInStep
      <3> QED
        BY <1>1, <1>2, <2>1, <3>1
    <2>2. CASE resultCh'[r] # c
      <3>1. resultCh'[r] = resultCh[r]
        BY <2>2
      <3>2. resultCh[r] \in Busy /\ call[resultCh[r]].pc # "found"
            /\ call[resultCh[r]].state = r
        BY <1>5, <3>1 DEF CallsInStep
      <3>3. call'[resultCh[r]] = call[resultCh[r]]
        BY <1>1, <2>2, <3>1, <3>2
      <3> QED
        BY <1>2, <3>1, <3>2, <3>3
    <2> QED
      BY <2>1, <2>2
  <1>6. ASSUME NEW d \in Busy' \ mixed'
        PROVE  Busy' = {d} /\ Requests' \subseteq {d}
    <2>1. Busy = {d} /\ Requests \subseteq {d}
      BY <1>2 DEF CallsInStep
    <2> QED
      BY <1>2, <2>1
  <1>7. CallsInStep'
    BY <1>4, <1>5, <1>6 DEF CallsInStep
  <1> QED
    BY <1>3, <1>7

(* What a channel holds after a batch was put in it or taken out.          *)
LEMMA QueueAfterAppend ==
  ASSUME HostTypeOK, NEW s \in Streams, NEW m \in 0..MaxCalls,
         Len(queue[s]) < QueueCap,
         queue' = [queue EXCEPT ![s] = Append(@, m)]
  PROVE  /\ queue' \in [Streams -> Seq(0..MaxCalls)]
         /\ \A t \in Streams : Len(queue'[t]) <= QueueCap
         /\ \A t \in Streams : \A i \in DOMAIN queue'[t] :
               queue'[t][i] = m \/ \E j \in DOMAIN queue[t] : queue[t][j] = queue'[t][i]
  <1>1. /\ queue \in [Streams -> Seq(0..MaxCalls)]
        /\ \A t \in Streams : Len(queue[t]) <= QueueCap
    BY DEF HostTypeOK
  <1>2. queue'[s] = Append(queue[s], m) /\ \A t \in Streams : t # s => queue'[t] = queue[t]
    BY <1>1
  <1>3. queue[s] \in Seq(0..MaxCalls)
    BY <1>1
  <1>4. /\ queue'[s] \in Seq(0..MaxCalls) /\ Len(queue'[s]) <= QueueCap
        /\ DOMAIN queue'[s] = 1..(Len(queue[s]) + 1)
        /\ queue'[s][Len(queue[s]) + 1] = m
        /\ \A i \in DOMAIN queue[s] : queue'[s][i] = queue[s][i]
        /\ \A i \in DOMAIN queue'[s] : i = Len(queue[s]) + 1 \/ i \in DOMAIN queue[s]
    <2>1. Len(queue[s]) + 1 <= QueueCap
      BY <1>3, HostNumbers
    <2> DEFINE a == Append(queue[s], m)
    <2>2. /\ a \in Seq(0..MaxCalls) /\ Len(a) = Len(queue[s]) + 1
          /\ DOMAIN a = 1..(Len(queue[s]) + 1) /\ a[Len(queue[s]) + 1] = m
          /\ \A i \in DOMAIN queue[s] : a[i] = queue[s][i]
          /\ \A i \in DOMAIN a : i = Len(queue[s]) + 1 \/ i \in DOMAIN queue[s]
      BY <1>3, AppendFacts
    <2>3. queue'[s] = a
      BY <1>2
    <2> HIDE DEF a
    <2> QED
      BY <2>1, <2>2, <2>3
  <1>5. \A i \in DOMAIN queue'[s] :
          queue'[s][i] = m \/ \E j \in DOMAIN queue[s] : queue[s][j] = queue'[s][i]
    <2> SUFFICES ASSUME NEW i \in DOMAIN queue'[s], queue'[s][i] # m
                 PROVE  \E j \in DOMAIN queue[s] : queue[s][j] = queue'[s][i]
      OBVIOUS
    <2>1. i \in DOMAIN queue[s] /\ queue'[s][i] = queue[s][i]
      BY <1>4
    <2> QED
      BY <2>1
  <1>6. queue' \in [Streams -> Seq(0..MaxCalls)]
    <2>1. DOMAIN queue' = Streams /\ queue' = [t \in Streams |-> queue'[t]]
      BY <1>1
    <2>2. \A t \in Streams : queue'[t] \in Seq(0..MaxCalls)
      BY <1>1, <1>2, <1>4
    <2> QED
      BY <2>1, <2>2
  <1> QED
    BY <1>1, <1>2, <1>4, <1>5, <1>6

\* A stream's queue after its head is taken.
LEMMA QueueAfterTail ==
  ASSUME HostTypeOK, NEW s \in Streams, queue[s] # <<>>,
         queue' = [queue EXCEPT ![s] = Tail(@)]
  PROVE  /\ queue' \in [Streams -> Seq(0..MaxCalls)]
         /\ \A t \in Streams : Len(queue'[t]) <= QueueCap
         /\ \A t \in Streams : \A i \in DOMAIN queue'[t] :
               \E j \in DOMAIN queue[t] : queue[t][j] = queue'[t][i]
         /\ Head(queue[s]) \in 0..MaxCalls
         /\ \E j \in DOMAIN queue[s] : queue[s][j] = Head(queue[s])
  <1>1. /\ queue \in [Streams -> Seq(0..MaxCalls)]
        /\ \A t \in Streams : Len(queue[t]) <= QueueCap
    BY DEF HostTypeOK
  <1>2. queue'[s] = Tail(queue[s]) /\ \A t \in Streams : t # s => queue'[t] = queue[t]
    BY <1>1
  <1>3. queue[s] \in Seq(0..MaxCalls)
    BY <1>1
  <1>4. /\ queue'[s] \in Seq(0..MaxCalls) /\ Len(queue'[s]) <= QueueCap
        /\ \A i \in DOMAIN queue'[s] :
             i + 1 \in DOMAIN queue[s] /\ queue[s][i + 1] = queue'[s][i]
    <2>1. Len(queue[s]) - 1 <= QueueCap
      BY <1>1, <1>3, HostNumbers
    <2> DEFINE a == Tail(queue[s])
    <2>2. /\ a \in Seq(0..MaxCalls) /\ Len(a) = Len(queue[s]) - 1
          /\ \A i \in DOMAIN a : i + 1 \in DOMAIN queue[s] /\ a[i] = queue[s][i + 1]
      BY <1>3, TailFacts
    <2>3. queue'[s] = a
      BY <1>2
    <2> HIDE DEF a
    <2> QED
      BY <2>1, <2>2, <2>3
  <1>5. /\ Head(queue[s]) \in 0..MaxCalls
        /\ 1 \in DOMAIN queue[s] /\ queue[s][1] = Head(queue[s])
    BY <1>3, TailFacts
  <1>6. queue' \in [Streams -> Seq(0..MaxCalls)]
    <2>1. DOMAIN queue' = Streams /\ queue' = [t \in Streams |-> queue'[t]]
      BY <1>1
    <2>2. \A t \in Streams : queue'[t] \in Seq(0..MaxCalls)
      BY <1>1, <1>2, <1>4
    <2> QED
      BY <2>1, <2>2
  <1> QED
    BY <1>1, <1>2, <1>4, <1>5, <1>6

(* Subscribe: the stream that was in the map is closed, and the history    *)
(* remembers it.                                                           *)
LEMMA SubscribeSafe ==
  ASSUME PluginInv, crash = "none", NEW s \in Streams, Subscribe(s)
  PROVE  PluginInv'
  <1> USE HostNumbers
  <1>i. HostTypeOK /\ StreamPart /\ CallPart
    BY PluginParts
  <1>1. /\ stream[s] = "none" /\ stream' = [stream EXCEPT ![s] = "loop"]
        /\ open' = (open \ {subscriber}) \cup {s}
        /\ replaced' = (replaced \/ subscriber # 0) /\ subscriber' = s
        /\ UNCHANGED <<states, resultCh, queue, cut, call, running, events, crash,
                       mixed>>
    BY DEF Subscribe
  <1>2. /\ stream \in [Streams -> {"none", "loop", "exit", "close", "over"}]
        /\ open \subseteq Streams /\ subscriber \in 0..MaxStreams
    BY <1>i DEF HostTypeOK
  <1>3. /\ stream'[s] = "loop" /\ \A r \in Streams : r # s => stream'[r] = stream[r]
        /\ stream' \in [Streams -> {"none", "loop", "exit", "close", "over"}]
    BY <1>1, <1>2
  <1>4. HostTypeOK'
    <2>1. open' \subseteq Streams /\ subscriber' \in 0..MaxStreams
      BY <1>1, <1>2
    <2>2. replaced' \in BOOLEAN
      BY <1>1
    <2> QED
      BY <1>1, <1>3, <1>i, <2>1, <2>2 DEF HostTypeOK
  <1>5. BroadcastIsSafe'
    BY <1>1 DEF BroadcastIsSafe
  <1>6. StreamsInStep'
    <2>1. ASSUME NEW r \in Streams, stream'[r] \in {"loop", "exit", "close"},
                 r \notin open'
          PROVE  replaced'
      <3>1. r # s /\ stream[r] \in {"loop", "exit", "close"}
        BY <1>1, <1>3, <2>1
      <3>2. CASE r \notin open
        BY <1>1, <1>i, <3>1, <3>2 DEF StreamPart, StreamsInStep
      <3>3. CASE r \in open
        BY <1>1, <2>1, <3>1, <3>3
      <3> QED
        BY <3>2, <3>3
    <2>2. ASSUME NEW r \in Streams, stream'[r] \in {"exit", "close", "over"}
          PROVE  replaced' \/ r \in cut'
      BY <1>1, <1>3, <1>i, <2>2 DEF StreamPart, StreamsInStep
    <2> QED
      BY <1>1, <1>3, <2>1, <2>2 DEF StreamsInStep
  <1>7. CallPart'
    <2>1. Requests' = Requests
      BY <1>1 DEF Requests
    <2>2. \A r \in Streams : stream[r] # "none" => stream'[r] # "none"
      BY <1>1, <1>3
    <2> QED
      BY <1>1, <1>i, <2>1, <2>2, SameCalls
  <1> QED
    BY <1>4, <1>5, <1>6, <1>7 DEF PluginInv, CallPart

(* A stream sends a batch, ends, leaves the map or closes its channel:     *)
(* only a stream that was replaced or cut ends.                            *)
LEMMA StreamSafe ==
  ASSUME PluginInv, crash = "none", NEW s \in Streams,
         StreamDrained(s) \/ StreamLeaves(s) \/ StreamCloses(s) \/ Cut(s)
  PROVE  PluginInv'
  <1> USE HostNumbers
  <1>i. HostTypeOK /\ StreamPart /\ CallPart
    BY PluginParts
  <1>t. /\ stream \in [Streams -> {"none", "loop", "exit", "close", "over"}]
        /\ open \subseteq Streams /\ subscriber \in 0..MaxStreams
        /\ cut \subseteq Streams
    BY <1>i DEF HostTypeOK
  <1>u. UNCHANGED <<states, resultCh, queue, call, running, events, replaced, mixed>>
    BY DEF StreamDrained, StreamLeaves, StreamCloses, Cut
  <1>1. CASE Cut(s)
    <2>1. UNCHANGED <<stream, open, subscriber, crash>> /\ cut' = cut \cup {s}
      BY <1>1 DEF Cut
    <2>2. HostTypeOK'
      BY <1>i, <1>t, <1>u, <2>1 DEF HostTypeOK
    <2>3. StreamPart'
      BY <1>i, <1>u, <2>1 DEF StreamPart, BroadcastIsSafe, StreamsInStep
    <2>4. CallPart'
      <3>1. Requests' = Requests
        BY <1>u DEF Requests
      <3> QED
        BY <1>i, <1>u, <2>1, <3>1, SameCalls
    <2> QED
      BY <2>2, <2>3, <2>4 DEF PluginInv, StreamPart, CallPart
  <1>2. CASE StreamDrained(s) \/ StreamLeaves(s) \/ StreamCloses(s)
    <2>1. /\ stream[s] \in {"loop", "exit", "close"} /\ cut' = cut
          /\ stream' \in [Streams -> {"none", "loop", "exit", "close", "over"}]
          /\ \A r \in Streams : r # s => stream'[r] = stream[r]
          /\ stream'[s] \in {"exit", "close", "over"}
      BY <1>2, <1>t DEF StreamDrained, StreamLeaves, StreamCloses
    <2>2. /\ subscriber' \in {0, subscriber}
          /\ subscriber' # 0 => subscriber # s \/ stream'[s] = "exit"
          /\ open' \in {open, open \ {s}}
          /\ open' # open => stream[s] = "close" /\ stream'[s] = "over"
          /\ crash' \in {"none", "close"}
      BY <1>2, <1>i, <2>1
         DEF StreamDrained, StreamLeaves, StreamCloses, SubscriberAfter, StreamPart,
             StreamsInStep
    <2>3. crash' # "none" => replaced
      BY <1>2, <1>i DEF StreamDrained, StreamLeaves, StreamCloses, StreamPart,
                        StreamsInStep
    <2>4. replaced \/ s \in cut
      BY <1>2, <1>i DEF StreamDrained, StreamLeaves, StreamCloses, StreamPart,
                        StreamsInStep
    <2>5. HostTypeOK'
      <3>1. subscriber' \in 0..MaxStreams /\ open' \subseteq Streams
        BY <1>t, <2>2
      <3> QED
        BY <1>i, <1>u, <2>1, <2>2, <3>1 DEF HostTypeOK
    <2>6. BroadcastIsSafe'
      <3>1. subscriber' # 0 => subscriber \in open
        BY <1>i, <2>2 DEF StreamPart, BroadcastIsSafe
      <3>2. subscriber' # 0 => subscriber \in open'
        BY <1>i, <2>1, <2>2, <3>1 DEF StreamPart, StreamsInStep
      <3> QED
        BY <1>u, <2>2, <2>3, <3>2 DEF BroadcastIsSafe
    <2>7. StreamsInStep'
      <3>1. subscriber' # 0 => stream'[subscriber'] \in {"loop", "exit"}
        BY <1>i, <1>t, <2>1, <2>2 DEF StreamPart, StreamsInStep
      <3>2. ASSUME NEW r \in Streams, stream'[r] \in {"loop", "exit", "close"},
                   r \notin open'
            PROVE  replaced'
        <4>1. stream[r] \in {"loop", "exit", "close"} /\ r \notin open
          BY <2>1, <2>2, <3>2
        <4> QED
          BY <1>i, <1>u, <4>1 DEF StreamPart, StreamsInStep
      <3>3. ASSUME NEW r \in Streams, stream'[r] \in {"exit", "close", "over"}
            PROVE  replaced' \/ r \in cut'
        BY <1>i, <1>u, <2>1, <2>4, <3>3 DEF StreamPart, StreamsInStep
      <3> QED
        BY <3>1, <3>2, <3>3 DEF StreamsInStep
    <2>8. CallPart'
      <3>1. Requests' = Requests
        BY <1>u DEF Requests
      <3>2. \A r \in Streams : stream[r] # "none" => stream'[r] # "none"
        BY <2>1
      <3> QED
        BY <1>i, <1>u, <3>1, <3>2, SameCalls
    <2> QED
      BY <2>5, <2>6, <2>7, <2>8 DEF PluginInv, CallPart
  <1> QED
    BY <1>1, <1>2

\* A stream's send keeps the plugin invariant.
LEMMA StreamSendsSafe ==
  ASSUME PluginInv, crash = "none", NEW s \in Streams, StreamSends(s)
  PROVE  PluginInv'
  <1> USE HostNumbers
  <1>i. HostTypeOK /\ StreamPart /\ CallPart
    BY PluginParts
  <1>1. /\ stream[s] = "loop" /\ queue[s] # <<>>
        /\ queue' = [queue EXCEPT ![s] = Tail(@)]
        /\ UNCHANGED <<states, resultCh, subscriber, open, cut, call, events, crash,
                       replaced, mixed>>
    BY DEF StreamSends
  <1>2. /\ queue' \in [Streams -> Seq(0..MaxCalls)]
        /\ \A t \in Streams : Len(queue'[t]) <= QueueCap
        /\ \A t \in Streams : \A i \in DOMAIN queue'[t] :
              \E j \in DOMAIN queue[t] : queue[t][j] = queue'[t][i]
        /\ Head(queue[s]) \in 0..MaxCalls
        /\ \E j \in DOMAIN queue[s] : queue[s][j] = Head(queue[s])
    BY <1>1, <1>i, QueueAfterTail
  <1>3. /\ stream \in [Streams -> {"none", "loop", "exit", "close", "over"}]
        /\ running \subseteq Calls /\ subscriber \in 0..MaxStreams
    BY <1>i DEF HostTypeOK
  <1>4. /\ running' \subseteq running \cup ({Head(queue[s])} \ {0})
        /\ \A r \in Streams : r # s => stream'[r] = stream[r]
        /\ stream'[s] = "loop" \/ (stream'[s] = "exit" /\ s \in cut)
        /\ stream' \in [Streams -> {"none", "loop", "exit", "close", "over"}]
    <2>1. CASE s \in cut
      <3>1. stream' = [stream EXCEPT ![s] = "exit"] /\ running' = running
        BY <2>1 DEF StreamSends
      <3> QED
        BY <1>3, <2>1, <3>1
    <2>2. CASE s \notin cut
      <3>1. stream' = stream /\ running' = running \cup ({Head(queue[s])} \ {0})
        BY <2>2 DEF StreamSends, Event
      <3>2. stream'[s] = "loop" /\ running' \subseteq running \cup ({Head(queue[s])} \ {0})
        BY <1>1, <3>1, Zenon
      <3>3. /\ \A r \in Streams : r # s => stream'[r] = stream[r]
            /\ stream' \in [Streams -> {"none", "loop", "exit", "close", "over"}]
        BY <1>3, <3>1, Zenon
      <3> HIDE HostNumbers
      <3> QED
        BY <3>2, <3>3, Zenon
    <2> QED
      BY <2>1, <2>2
  <1>5. HostTypeOK'
    <2>1. running' \subseteq Calls
      BY <1>2, <1>3, <1>4
    <2> QED
      BY <1>1, <1>2, <1>4, <1>i, <2>1 DEF HostTypeOK
  <1>6. StreamPart'
    <2>1. BroadcastIsSafe'
      BY <1>1, <1>i DEF StreamPart, BroadcastIsSafe
    <2>2. subscriber' # 0 => stream'[subscriber'] \in {"loop", "exit"}
      BY <1>1, <1>3, <1>4, <1>i DEF StreamPart, StreamsInStep
    <2>3. \A r \in Streams :
            /\ stream'[r] \in {"loop", "exit", "close"} /\ r \notin open' => replaced'
            /\ stream'[r] \in {"exit", "close", "over"} => replaced' \/ r \in cut'
      BY <1>1, <1>4, <1>i DEF StreamPart, StreamsInStep
    <2> QED
      BY <2>1, <2>2, <2>3 DEF StreamPart, StreamsInStep
  <1>7. Requests' \subseteq Requests
    <2>1. running' \subseteq Requests
      BY <1>2, <1>4 DEF Requests
    <2>2. ASSUME NEW c \in Calls, NEW t \in Streams, NEW i \in DOMAIN queue'[t],
                 queue'[t][i] = c
          PROVE  c \in Requests
      BY <1>2, <2>2 DEF Requests
    <2> QED
      BY <2>1, <2>2 DEF Requests
  <1>8. CallPart'
    <2>1. \A r \in Streams : stream[r] # "none" => stream'[r] # "none"
      BY <1>4
    <2> QED
      BY <1>1, <1>7, <1>i, <2>1, SameCalls
  <1> QED
    BY <1>5, <1>6, <1>8 DEF PluginInv, StreamPart, CallPart

(* BroadcastEvent sends on the channel in the map, which is open.          *)
LEMMA BroadcastSafe ==
  ASSUME PluginInv, crash = "none", BroadcastEvent
  PROVE  PluginInv'
  <1> USE HostNumbers
  <1>i. HostTypeOK /\ StreamPart /\ CallPart
    BY PluginParts
  <1>1. /\ events < MaxEvents /\ events' = events + 1
        /\ UNCHANGED <<states, resultCh, subscriber, stream, open, cut, call,
                       running, replaced, mixed>>
    BY DEF BroadcastEvent
  <1>2. crash' = crash
    BY <1>i DEF BroadcastEvent, StreamPart, BroadcastIsSafe
  <1>3. /\ queue' \in [Streams -> Seq(0..MaxCalls)]
        /\ \A t \in Streams : Len(queue'[t]) <= QueueCap
        /\ \A t \in Streams : \A i \in DOMAIN queue'[t] :
              queue'[t][i] = 0 \/ \E j \in DOMAIN queue[t] : queue[t][j] = queue'[t][i]
    <2>1. CASE subscriber # 0 /\ Len(queue[subscriber]) < QueueCap
      <3>1. subscriber \in Streams
        BY <1>i, <2>1 DEF HostTypeOK
      <3>2. queue' = [queue EXCEPT ![subscriber] = Append(@, 0)]
        BY <2>1 DEF BroadcastEvent, Event
      <3>3. 0 \in 0..MaxCalls
        OBVIOUS
      <3> HIDE HostNumbers
      <3> QED
        BY <1>i, <2>1, <3>1, <3>2, <3>3, QueueAfterAppend, ZenonT(60)
    <2>2. CASE ~(subscriber # 0 /\ Len(queue[subscriber]) < QueueCap)
      <3>1. queue' = queue
        BY <2>2 DEF BroadcastEvent
      <3> QED
        BY <1>i, <3>1 DEF HostTypeOK
    <2> QED
      BY <2>1, <2>2
  <1>4. HostTypeOK'
    <2>1. events \in 0..MaxEvents
      BY <1>i DEF HostTypeOK
    <2>2. events' \in 0..MaxEvents
      BY <1>1, <2>1
    <2> QED
      BY <1>1, <1>2, <1>3, <1>i, <2>2 DEF HostTypeOK
  <1>5. StreamPart'
    BY <1>1, <1>2, <1>i, SameStreams
  <1>6. Requests' \subseteq Requests
    <2>1. ASSUME NEW c \in Calls, NEW t \in Streams, NEW i \in DOMAIN queue'[t],
                 queue'[t][i] = c
          PROVE  c \in Requests
      <3>1. queue'[t][i] # 0
        BY <2>1
      <3> QED
        BY <1>3, <2>1, <3>1, Zenon DEF Requests
    <2> QED
      BY <1>1, <2>1, Zenon DEF Requests
  <1>7. CallPart'
    BY <1>1, <1>6, <1>i, SameCalls
  <1> QED
    BY <1>4, <1>5, <1>7 DEF PluginInv, StreamPart, CallPart

(* ExecuteAction finds the stream and the pluginState: with another call   *)
(* open, or a request under way, it is mixed from the start.               *)
LEMMA FindsSafe ==
  ASSUME PluginInv, crash = "none", NEW c \in Calls, ExecuteFinds(c)
  PROVE  PluginInv'
  <1> USE HostNumbers
  <1>i. HostTypeOK /\ StreamPart /\ CallPart
    BY PluginParts
  <1> DEFINE rec == [pc |-> "found", stream |-> subscriber, state |-> states, got |-> 0]
  <1>1. /\ call[c].pc = "none" /\ subscriber # 0 /\ states # 0
        /\ call' = [call EXCEPT ![c] = rec]
        /\ UNCHANGED <<states, resultCh, subscriber, stream, open, queue, cut,
                       running, events, crash, replaced>>
    BY DEF ExecuteFinds
  <1>2. rec \in CallRec
    BY <1>i DEF HostTypeOK, CallRec
  <1>3. /\ call' \in [Calls -> CallRec] /\ call'[c] = rec
        /\ \A d \in Calls : d # c => call'[d] = call[d]
    BY <1>1, <1>2, <1>i, CallTypes
  <1>4. Busy' = Busy \cup {c} /\ c \notin Busy /\ Busy \subseteq Calls
    BY <1>1, <1>3 DEF Busy
  <1>5. /\ mixed \subseteq mixed' /\ mixed' \subseteq Calls
        /\ Busy # {} => Busy \cup {c} \subseteq mixed'
        /\ c \notin mixed' => Busy = {} /\ Requests = {}
    <2>1. mixed \subseteq Calls /\ running \subseteq Calls
      BY <1>i DEF HostTypeOK
    <2>2. CASE Busy # {}
      <3>1. mixed' = mixed \cup Busy \cup {c}
        BY <2>2 DEF ExecuteFinds
      <3> QED
        BY <1>4, <2>1, <2>2, <3>1
    <2>3. CASE Busy = {} /\ (running # {} \/ \E s \in Streams : \E i \in DOMAIN queue[s] :
                                              queue[s][i] # Event)
      <3>1. mixed' = mixed \cup {c}
        BY <2>3 DEF ExecuteFinds
      <3> QED
        BY <2>1, <2>3, <3>1
    <2>4. CASE Busy = {} /\ ~(running # {} \/ \E s \in Streams : \E i \in DOMAIN queue[s] :
                                               queue[s][i] # Event)
      <3>1. mixed' = mixed
        BY <2>4 DEF ExecuteFinds
      <3>2. Requests = {}
        BY <2>4 DEF Requests, Event
      <3> QED
        BY <2>1, <2>4, <3>1, <3>2
    <2> QED
      BY <2>2, <2>3, <2>4
  <1>6. HostTypeOK'
    BY <1>1, <1>3, <1>5, <1>i DEF HostTypeOK, CallRec
  <1>7. StreamPart'
    <2>1. UNCHANGED <<subscriber, crash, open, replaced, cut, stream>>
      BY <1>1
    <2> QED
      BY <1>i, <2>1, SameStreams
  <1>8. OwnResult'
    BY <1>3, <1>5, <1>i DEF CallPart, OwnResult
  <1>9. CallsInStep'
    <2>1. ASSUME NEW d \in Busy'
          PROVE  /\ call'[d].stream # 0 /\ stream'[call'[d].stream] # "none"
                 /\ call'[d].state # 0
      <3>1. CASE d = c
        BY <1>1, <1>3, <1>i, <3>1 DEF StreamPart, StreamsInStep
      <3>2. CASE d # c
        BY <1>1, <1>3, <1>4, <1>i, <3>2 DEF CallPart, CallsInStep
      <3> QED
        BY <3>1, <3>2
    <2>2. ASSUME NEW r \in 1..MaxStates, resultCh'[r] # 0
          PROVE  /\ resultCh'[r] \in Busy' /\ call'[resultCh'[r]].pc # "found"
                 /\ call'[resultCh'[r]].state = r
      <3>1. resultCh[r] \in Busy /\ call[resultCh[r]].pc # "found"
            /\ call[resultCh[r]].state = r
        BY <1>1, <1>i, <2>2 DEF CallPart, CallsInStep
      <3>2. call'[resultCh[r]] = call[resultCh[r]]
        BY <1>3, <1>4, <3>1
      <3> QED
        BY <1>1, <1>4, <3>1, <3>2
    <2>3. ASSUME NEW d \in Busy' \ mixed'
          PROVE  Busy' = {d} /\ Requests' \subseteq {d}
      <3>1. Busy = {} /\ d = c /\ Requests = {}
        BY <1>4, <1>5
      <3>2. Requests' = Requests
        BY <1>1 DEF Requests
      <3> QED
        BY <1>4, <3>1, <3>2
    <2> QED
      BY <2>1, <2>2, <2>3 DEF CallsInStep
  <1> QED
    BY <1>6, <1>7, <1>8, <1>9 DEF PluginInv, StreamPart

(* The steps of an open call up to the deferred function.                  *)
LEMMA CallStepSafe ==
  ASSUME PluginInv, crash = "none", NEW c \in Calls,
         ExecuteSets(c) \/ ExecuteGets(c) \/ ExecuteTimesOut(c)
  PROVE  PluginInv'
  <1> USE HostNumbers
  <1>i. HostTypeOK /\ StreamPart /\ CallPart
    BY PluginParts
  <1>u. /\ UNCHANGED <<states, subscriber, stream, open, queue, cut, running,
                       events, crash, replaced, mixed>>
    BY DEF ExecuteSets, ExecuteGets, ExecuteTimesOut
  <1>t. call[c] \in CallRec /\ call \in [Calls -> CallRec]
        /\ resultCh \in [1..MaxStates -> 0..MaxCalls]
    BY <1>i, CallTypes DEF HostTypeOK
  <1>1. c \in Busy
    BY DEF ExecuteSets, ExecuteGets, ExecuteTimesOut, TimeIsUp, Busy
  <1>2. call[c].state \in 1..MaxStates
    BY <1>1, <1>i, <1>t DEF CallPart, CallsInStep, CallRec
  <1>3. PICK rec \in CallRec :
          /\ rec.pc \in {"set", "wait", "clear"} /\ rec.stream = call[c].stream
          /\ rec.state = call[c].state /\ rec.got \in {0, call[c].got}
          /\ call' = [call EXCEPT ![c] = rec]
    <2>1. CASE ExecuteSets(c)
      <3> DEFINE rec == [call[c] EXCEPT !.pc = "set"]
      <3>1. /\ rec \in CallRec /\ rec.pc \in {"set", "wait", "clear"}
            /\ rec.stream = call[c].stream /\ rec.state = call[c].state
            /\ rec.got \in {0, call[c].got}
        BY <1>t DEF CallRec
      <3>2. call' = [call EXCEPT ![c] = rec]
        BY <1>t, <2>1 DEF ExecuteSets, CallRec
      <3> QED
        BY <3>1, <3>2
    <2>2. CASE ExecuteGets(c)
      <3> DEFINE rec == [call[c] EXCEPT !.pc = "clear"]
      <3>1. /\ rec \in CallRec /\ rec.pc \in {"set", "wait", "clear"}
            /\ rec.stream = call[c].stream /\ rec.state = call[c].state
            /\ rec.got \in {0, call[c].got}
        BY <1>t DEF CallRec
      <3>2. call' = [call EXCEPT ![c] = rec]
        BY <1>t, <2>2 DEF ExecuteGets, CallRec
      <3> QED
        BY <3>1, <3>2
    <2>3. CASE ExecuteTimesOut(c)
      <3> DEFINE rec == [call[c] EXCEPT !.pc = "clear", !.got = 0]
      <3>1. /\ rec \in CallRec /\ rec.pc \in {"set", "wait", "clear"}
            /\ rec.stream = call[c].stream /\ rec.state = call[c].state
            /\ rec.got \in {0, call[c].got}
        BY <1>t DEF CallRec
      <3>2. call' = [call EXCEPT ![c] = rec]
        BY <1>t, <2>3 DEF ExecuteTimesOut, CallRec
      <3> QED
        BY <3>1, <3>2
    <2> QED
      BY <2>1, <2>2, <2>3
  <1>4. /\ resultCh' \in [1..MaxStates -> 0..MaxCalls]
        /\ \A r \in 1..MaxStates :
            resultCh'[r] = resultCh[r] \/ (r = call[c].state /\ resultCh'[r] = c)
    BY SMTT(60), <1>2, <1>t DEF ExecuteSets, ExecuteGets, ExecuteTimesOut
  <1>5. call' \in [Calls -> CallRec]
    BY <1>3, <1>t
  <1>6. HostTypeOK'
    BY <1>4, <1>5, <1>i, <1>u DEF HostTypeOK, CallRec
  <1>7. StreamPart'
    BY <1>i, <1>u, SameStreams
  <1>8. Requests' = Requests
    BY <1>u DEF Requests
  <1>9. CallPart'
    BY <1>1, <1>3, <1>4, <1>8, <1>i, <1>u, CallMoves
  <1> QED
    BY <1>6, <1>7, <1>9 DEF PluginInv, StreamPart, CallPart

(* The request is sent to the channel that was found.  That it is closed   *)
(* by now takes a stream that was replaced or cut.                         *)
LEMMA SendsSafe ==
  ASSUME PluginInv, crash = "none", NEW c \in Calls, ExecuteSends(c)
  PROVE  PluginInv'
  <1> USE HostNumbers
  <1>i. HostTypeOK /\ StreamPart /\ CallPart
    BY PluginParts
  <1>t. call[c] \in CallRec /\ call \in [Calls -> CallRec]
    BY <1>i, CallTypes
  <1> DEFINE s == call[c].stream
             room == s \in open /\ Len(queue[s]) < QueueCap
             rec == [call[c] EXCEPT !.pc = IF room THEN "wait" ELSE "clear"]
  <1>1. /\ call[c].pc = "set"
        /\ queue' = IF room THEN [queue EXCEPT ![s] = Append(@, c)] ELSE queue
        /\ crash' = IF s \in open THEN crash ELSE "send"
        /\ call' = [call EXCEPT ![c] = rec]
        /\ UNCHANGED <<states, resultCh, subscriber, stream, open, cut, running,
                       events, replaced, mixed>>
    BY <1>t DEF ExecuteSends, CallRec
  <1>2. c \in Busy
    BY <1>1 DEF Busy
  <1>3. s \in Streams /\ stream[s] # "none"
    BY <1>2, <1>i, <1>t DEF CallPart, CallsInStep, CallRec
  <1>4. /\ rec \in CallRec /\ rec.pc \in {"set", "wait", "clear"}
        /\ rec.stream = call[c].stream /\ rec.state = call[c].state
        /\ rec.got \in {0, call[c].got}
    BY <1>t DEF CallRec
  <1> HIDE DEF rec, s
  <1>5. /\ queue' \in [Streams -> Seq(0..MaxCalls)]
        /\ \A t \in Streams : Len(queue'[t]) <= QueueCap
        /\ \A t \in Streams : \A i \in DOMAIN queue'[t] :
              queue'[t][i] = c \/ \E j \in DOMAIN queue[t] : queue[t][j] = queue'[t][i]
    <2>1. CASE room
      <3>1. c \in 0..MaxCalls
        OBVIOUS
      <3>2. Len(queue[s]) < QueueCap /\ queue' = [queue EXCEPT ![s] = Append(@, c)]
        BY <1>1, <2>1
      <3> HIDE HostNumbers
      <3> QED
        BY <1>3, <1>i, <3>1, <3>2, QueueAfterAppend, ZenonT(60)
    <2>2. CASE ~room
      <3>1. queue' = queue
        BY <1>1, <2>2
      <3> QED
        BY <1>i, <3>1 DEF HostTypeOK
    <2> QED
      BY <2>1, <2>2
  <1>6. crash' \in {"none", "send"} /\ (crash' # "none" => s \notin open)
    BY <1>1
  <1>7. s \notin open => replaced \/ cut # {}
    <2>1. stream[s] \in {"loop", "exit", "close", "over"}
      BY <1>3, <1>i DEF HostTypeOK
    <2> QED
      BY <1>3, <1>i, <2>1 DEF StreamPart, StreamsInStep
  <1>8. HostTypeOK'
    <2>1. call' \in [Calls -> CallRec]
      BY <1>1, <1>4, <1>t
    <2> QED
      BY <1>1, <1>5, <1>6, <1>i, <2>1 DEF HostTypeOK, CallRec
  <1>9. BroadcastIsSafe' /\ StreamsInStep'
    <2>1. StreamsInStep'
      BY <1>1, <1>i DEF StreamPart, StreamsInStep
    <2>2. subscriber' # 0 /\ crash' = "none" => subscriber' \in open'
      BY <1>1, <1>i DEF StreamPart, BroadcastIsSafe
    <2>3. crash' # "none" => replaced' \/ cut' # {}
      BY <1>1, <1>6, <1>7
    <2> QED
      BY <2>1, <2>2, <2>3 DEF BroadcastIsSafe
  <1>10. Requests' \subseteq Requests \cup {c}
    <2>1. ASSUME NEW d \in Calls, NEW t \in Streams, NEW i \in DOMAIN queue'[t],
                 queue'[t][i] = d
          PROVE  d \in Requests \cup {c}
      BY <1>5, <2>1, Zenon DEF Requests
    <2> QED
      BY <1>1, <2>1, Zenon DEF Requests
  <1>11. CallPart'
    <2>1. /\ UNCHANGED <<mixed, stream>>
          /\ \A r \in 1..MaxStates :
               resultCh'[r] = resultCh[r] \/ (r = call[c].state /\ resultCh'[r] = c)
      BY <1>1
    <2> QED
      BY <1>1, <1>2, <1>4, <1>10, <1>i, <2>1, CallMoves
  <1> QED
    BY <1>8, <1>9, <1>11 DEF PluginInv, CallPart

(* A result goes to the call whose channel is there; when that call is not *)
(* mixed, no request but its own is under way.                             *)
LEMMA ResultSafe ==
  ASSUME PluginInv, crash = "none", NEW c \in Calls,
         ActionResult(c) \/ ActionFails(c)
  PROVE  PluginInv'
  <1> USE HostNumbers
  <1>i. HostTypeOK /\ StreamPart /\ CallPart
    BY PluginParts
  <1>t. /\ call \in [Calls -> CallRec] /\ running \subseteq Calls
        /\ resultCh \in [1..MaxStates -> 0..MaxCalls] /\ states \in 0..MaxStates
    BY <1>i, CallTypes DEF HostTypeOK
  <1>u. /\ c \in running /\ running' = running \ {c}
        /\ UNCHANGED <<states, resultCh, subscriber, stream, open, queue, cut,
                       events, crash, replaced, mixed>>
    BY DEF ActionResult, ActionFails
  <1>r. Requests' \subseteq Requests /\ c \in Requests
    BY <1>u DEF Requests
  <1>s. StreamPart'
    BY <1>i, <1>u, SameStreams
  <1>1. CASE call' = call
    <2>1. HostTypeOK'
      BY <1>1, <1>i, <1>t, <1>u DEF HostTypeOK
    <2>2. CallPart'
      BY <1>1, <1>i, <1>r, <1>u, SameCalls
    <2> QED
      BY <1>s, <2>1, <2>2 DEF PluginInv, StreamPart, CallPart
  <1>2. CASE call' # call
    <2> DEFINE to == resultCh[states]
    <2>1. /\ states # 0 /\ to # 0 /\ call' = [call EXCEPT ![to].got = c]
      BY <1>2 DEF ActionResult, ActionFails
    <2>2. to \in Busy /\ to \in Calls
      BY <1>i, <1>t, <2>1 DEF CallPart, CallsInStep
    <2> HIDE DEF to
    <2> DEFINE rec == [call[to] EXCEPT !.got = c]
    <2>3. call' = [call EXCEPT ![to] = rec]
      BY <2>1, <2>2, <1>t
    <2>4. /\ rec \in CallRec /\ rec.pc = call[to].pc /\ rec.state = call[to].state
          /\ rec.stream = call[to].stream /\ rec.got = c
      <3>1. call[to] \in CallRec
        BY <1>t, <2>2
      <3> QED
        BY <3>1 DEF CallRec
    <2> HIDE DEF rec
    <2>5. /\ call' \in [Calls -> CallRec] /\ call'[to] = rec
          /\ \A d \in Calls : d # to => call'[d] = call[d]
      BY <1>t, <2>2, <2>3, <2>4
    <2>6. Busy' = Busy
      BY <2>2, <2>4, <2>5 DEF Busy
    <2>7. to \in mixed \/ c = to
      BY <1>i, <1>r, <2>2 DEF CallPart, CallsInStep
    <2>8. HostTypeOK'
      <3>1. running' \subseteq Calls
        BY <1>t, <1>u
      <3> QED
        BY <1>i, <1>u, <2>5, <3>1 DEF HostTypeOK, CallRec
    <2>9. OwnResult'
      BY <1>i, <1>u, <2>4, <2>5, <2>7 DEF CallPart, OwnResult
    <2>10. CallsInStep'
      <3>1. ASSUME NEW d \in Busy'
            PROVE  /\ call'[d].stream # 0 /\ stream'[call'[d].stream] # "none"
                   /\ call'[d].state # 0
        <4>1. /\ call[d].stream # 0 /\ stream[call[d].stream] # "none"
              /\ call[d].state # 0 /\ d \in Calls
          BY <1>i, <2>6, <3>1, CallTypes DEF CallPart, CallsInStep
        <4>2. call'[d].stream = call[d].stream /\ call'[d].state = call[d].state
          BY <2>4, <2>5, <4>1
        <4> QED
          BY <1>u, <4>1, <4>2
      <3>2. ASSUME NEW r \in 1..MaxStates, resultCh'[r] # 0
            PROVE  /\ resultCh'[r] \in Busy' /\ call'[resultCh'[r]].pc # "found"
                   /\ call'[resultCh'[r]].state = r
        <4>1. resultCh[r] \in Busy /\ call[resultCh[r]].pc # "found"
              /\ call[resultCh[r]].state = r /\ resultCh[r] \in Calls
          BY <1>i, <1>u, <3>2, CallTypes DEF CallPart, CallsInStep
        <4> QED
          BY <1>u, <2>4, <2>5, <2>6, <4>1
      <3>3. ASSUME NEW d \in Busy' \ mixed'
            PROVE  Busy' = {d} /\ Requests' \subseteq {d}
        BY <1>i, <1>r, <1>u, <2>6 DEF CallPart, CallsInStep
      <3> QED
        BY <3>1, <3>2, <3>3 DEF CallsInStep
    <2> QED
      BY <1>s, <2>8, <2>9, <2>10 DEF PluginInv, StreamPart
  <1> QED
    BY <1>1, <1>2

(* The deferred function of ExecuteAction clears the result channel of the *)
(* pluginState: no pluginState keeps the channel of a call that returned.  *)
LEMMA ReturnsSafe ==
  ASSUME PluginInv, crash = "none", NEW c \in Calls, ExecuteReturns(c)
  PROVE  PluginInv'
  <1> USE HostNumbers
  <1>i. HostTypeOK /\ StreamPart /\ CallPart
    BY PluginParts
  <1>t. /\ call[c] \in CallRec /\ call \in [Calls -> CallRec]
        /\ resultCh \in [1..MaxStates -> 0..MaxCalls]
    BY <1>i, CallTypes DEF HostTypeOK
  <1> DEFINE rec == [call[c] EXCEPT !.pc = "over"]
  <1>1. /\ call[c].pc = "clear"
        /\ resultCh' = [resultCh EXCEPT ![call[c].state] = 0]
        /\ call' = [call EXCEPT ![c] = rec]
        /\ UNCHANGED <<states, subscriber, stream, open, queue, cut, running, events,
                       crash, replaced, mixed>>
    BY <1>t DEF ExecuteReturns
  <1>2. rec \in CallRec /\ rec.pc = "over" /\ rec.got = call[c].got
    BY <1>t DEF CallRec
  <1> HIDE DEF rec
  <1>3. /\ call' \in [Calls -> CallRec] /\ call'[c] = rec
        /\ \A d \in Calls : d # c => call'[d] = call[d]
    BY <1>1, <1>2, <1>t
  <1>4. c \in Busy /\ Busy' = Busy \ {c} /\ Busy \subseteq Calls
    BY <1>1, <1>2, <1>3 DEF Busy
  <1>5. call[c].state \in 1..MaxStates
    BY <1>4, <1>i, <1>t DEF CallPart, CallsInStep, CallRec
  <1>6. /\ resultCh' \in [1..MaxStates -> 0..MaxCalls]
        /\ resultCh'[call[c].state] = 0
        /\ \A r \in 1..MaxStates : r # call[c].state => resultCh'[r] = resultCh[r]
    BY <1>1, <1>5, <1>t
  <1>7. HostTypeOK'
    BY <1>1, <1>3, <1>6, <1>i DEF HostTypeOK, CallRec
  <1>8. StreamPart'
    <2>1. UNCHANGED <<subscriber, crash, open, replaced, cut, stream>>
      BY <1>1
    <2> QED
      BY <1>i, <2>1, SameStreams
  <1>9. OwnResult'
    BY <1>1, <1>2, <1>3, <1>i DEF CallPart, OwnResult
  <1>10. CallsInStep'
    <2>1. ASSUME NEW d \in Busy'
          PROVE  /\ call'[d].stream # 0 /\ stream'[call'[d].stream] # "none"
                 /\ call'[d].state # 0
      <3>1. d \in Busy /\ call'[d] = call[d]
        BY <1>3, <1>4
      <3> QED
        BY <1>1, <1>i, <3>1 DEF CallPart, CallsInStep
    <2>2. ASSUME NEW r \in 1..MaxStates, resultCh'[r] # 0
          PROVE  /\ resultCh'[r] \in Busy' /\ call'[resultCh'[r]].pc # "found"
                 /\ call'[resultCh'[r]].state = r
      <3>1. r # call[c].state /\ resultCh'[r] = resultCh[r]
        BY <1>6, <2>2
      <3>2. resultCh[r] \in Busy /\ call[resultCh[r]].pc # "found"
            /\ call[resultCh[r]].state = r
        BY <1>i, <2>2, <3>1 DEF CallPart, CallsInStep
      <3>3. resultCh[r] # c
        BY <3>1, <3>2
      <3> QED
        BY <1>3, <1>4, <3>1, <3>2, <3>3
    <2>3. ASSUME NEW d \in Busy' \ mixed'
          PROVE  Busy' = {d} /\ Requests' \subseteq {d}
      <3>1. d \in Busy \ mixed /\ d # c
        BY <1>1, <1>4
      <3>2. Busy = {d}
        BY <1>i, <3>1 DEF CallPart, CallsInStep
      <3> QED
        BY <1>4, <3>1, <3>2
    <2> QED
      BY <2>1, <2>2, <2>3 DEF CallsInStep
  <1> QED
    BY <1>7, <1>8, <1>9, <1>10 DEF PluginInv, StreamPart

\* Every step keeps the plugin invariant.
LEMMA PluginInvNext == PluginInv /\ [HostNext]_hostVars => PluginInv'
  <1> SUFFICES ASSUME PluginInv, [HostNext]_hostVars PROVE PluginInv'
    OBVIOUS
  <1>i. HostTypeOK /\ StreamPart /\ CallPart
    BY PluginParts
  <1>1. CASE crash = "none" /\ Register
    <2>1. /\ states < MaxStates /\ states' = states + 1
          /\ UNCHANGED <<resultCh, subscriber, stream, open, queue, cut, call,
                         running, events, crash, replaced, mixed>>
      BY <1>1 DEF Register
    <2>2. states \in 0..MaxStates
      BY <1>i DEF HostTypeOK
    <2>3. states' \in 0..MaxStates
      BY <2>1, <2>2, HostNumbers
    <2>4. HostTypeOK'
      BY <1>i, <2>1, <2>3 DEF HostTypeOK
    <2>5. StreamPart'
      BY <1>i, <2>1, SameStreams
    <2>6. Requests' = Requests
      BY <2>1 DEF Requests
    <2>7. CallPart'
      BY <1>i, <2>1, <2>6, SameCalls
    <2> QED
      BY <2>4, <2>5, <2>7 DEF PluginInv, StreamPart, CallPart
  <1>2. CASE crash = "none" /\ BroadcastEvent
    BY <1>2, BroadcastSafe
  <1>3. CASE crash = "none" /\ \E s \in Streams : Subscribe(s)
    BY <1>3, SubscribeSafe
  <1>4. CASE crash = "none" /\ \E s \in Streams : StreamSends(s)
    BY <1>4, StreamSendsSafe
  <1>5. CASE crash = "none" /\ \E s \in Streams : StreamDrained(s) \/ StreamLeaves(s)
                                                  \/ StreamCloses(s) \/ Cut(s)
    BY <1>5, StreamSafe
  <1>6. CASE crash = "none" /\ \E c \in Calls : ExecuteFinds(c)
    BY <1>6, FindsSafe
  <1>7. CASE crash = "none" /\ \E c \in Calls : ExecuteSets(c) \/ ExecuteGets(c)
                                                 \/ ExecuteTimesOut(c)
    BY <1>7, CallStepSafe
  <1>8. CASE crash = "none" /\ \E c \in Calls : ExecuteSends(c)
    BY <1>8, SendsSafe
  <1>9. CASE crash = "none" /\ \E c \in Calls : ExecuteReturns(c)
    BY <1>9, ReturnsSafe
  <1>10. CASE crash = "none" /\ \E c \in Calls : ActionResult(c) \/ ActionFails(c)
    BY <1>10, ResultSafe
  <1>11. CASE UNCHANGED hostVars
    <2>1. Requests' = Requests
      BY <1>11 DEF Requests, hostVars
    <2>2. HostTypeOK'
      BY <1>11, <1>i DEF HostTypeOK, hostVars
    <2>3. StreamPart'
      BY <1>11, <1>i, SameStreams DEF hostVars
    <2>4. CallPart'
      BY <1>11, <1>i, <2>1, SameCalls DEF hostVars
    <2> QED
      BY <2>2, <2>3, <2>4 DEF PluginInv, StreamPart, CallPart
  <1> QED
    BY <1>1, <1>2, <1>3, <1>4, <1>5, <1>6, <1>7, <1>8, <1>9, <1>10, <1>11
       DEF HostNext, StreamStep, CallStep

(* The channel in the map is open, a server goes down only after a plugin  *)
(* subscribed twice or lost its stream (grpc_server.go:201), and a call of *)
(* ExecuteAction (:243) gets the result of its own request unless another  *)
(* call was open or a request of an earlier one under way, for any number  *)
(* of streams, registrations, calls and events.                            *)
THEOREM PluginInvariant == HostSpec => []PluginInv
  BY PluginInvInit, PluginInvNext, PTL DEF HostSpec

-----------------------------------------------------------------------------
(* The node.                                                               *)

TunnelRec == [key : Keys, link : 1..MaxLinks, live : BOOLEAN,
              pc : {"ctx", "top", "dial", "serve", "exit", "ended"}]
PipeRec == [ctx : 1..MaxTunnels, pc : {"dial", "pipe", "done"}]

\* The bounds are numbers.
LEMMA NodeNumbers ==
  /\ MaxLinks \in Nat /\ MaxChanges \in Nat /\ MaxTunnels \in Nat
  /\ MaxPipes \in Nat /\ WireCap \in Nat /\ OutCap \in Nat /\ OutCap > 0
  /\ 0 \in Ids
  BY ClientNodeAssumption DEF Ids

(* Messages are equal when both fields are.                                *)
LEMMA MsgEq ==
  \A t, u, k, j : Msg(t, k) = Msg(u, j) <=> t = u /\ k = j
  <1> SUFFICES ASSUME NEW t, NEW u, NEW k, NEW j
               PROVE  Msg(t, k) = Msg(u, j) <=> t = u /\ k = j
    OBVIOUS
  <1>1. /\ Msg(t, k).type = t /\ Msg(t, k).key = k
        /\ Msg(u, j).type = u /\ Msg(u, j).key = j
    BY DEF Msg
  <1> QED
    BY <1>1

\* The messages the server writes are well-typed.
LEMMA MsgType ==
  /\ \A k \in Keys : \A t \in {"proxy", "proxy_closed", "tunnel_request",
                               "proxy_outbound", "ping"} :
        Msg(t, k) \in Messages /\ Msg(t, k).type = t /\ Msg(t, k).key = k
  /\ Proxies \subseteq Keys /\ None \notin Proxies
  BY ClientNodeAssumption DEF Msg, Messages, Proxies

(* The types of the sequences.                                             *)
LEMMA NodeTypes ==
  ASSUME TypeOK
  PROVE  /\ tunnels \in Seq(TunnelRec) /\ Len(tunnels) \in Nat
         /\ DOMAIN tunnels = 1..Len(tunnels) /\ DOMAIN tunnels \subseteq 1..MaxTunnels
         /\ \A i \in DOMAIN tunnels : tunnels[i] \in TunnelRec /\ i # 0
         /\ pipes \in Seq(PipeRec) /\ Len(pipes) \in Nat /\ DOMAIN pipes = 1..Len(pipes)
         /\ \A p \in DOMAIN pipes : pipes[p] \in PipeRec
         /\ wire \in Seq(Messages) /\ Len(wire) \in Nat /\ DOMAIN wire = 1..Len(wire)
         /\ \A i \in DOMAIN wire : wire[i] \in Messages
  <1>1. /\ tunnels \in Seq(TunnelRec) /\ Len(tunnels) <= MaxTunnels
        /\ pipes \in Seq(PipeRec) /\ wire \in Seq(Messages)
    BY DEF TypeOK, TunnelRec, PipeRec
  <1>2. /\ Len(tunnels) \in Nat /\ DOMAIN tunnels = 1..Len(tunnels)
        /\ \A i \in DOMAIN tunnels : tunnels[i] \in TunnelRec /\ i # 0
    BY <1>1
  <1>3. DOMAIN tunnels \subseteq 1..MaxTunnels
    BY <1>1, <1>2, NodeNumbers
  <1>4. /\ Len(pipes) \in Nat /\ DOMAIN pipes = 1..Len(pipes)
        /\ \A p \in DOMAIN pipes : pipes[p] \in PipeRec
    BY <1>1
  <1>5. /\ Len(wire) \in Nat /\ DOMAIN wire = 1..Len(wire)
        /\ \A i \in DOMAIN wire : wire[i] \in Messages
    BY <1>1
  <1> QED
    BY <1>1, <1>2, <1>3, <1>4, <1>5

(* The requests under way are finitely many.                               *)
LEMMA RequestedFinite ==
  ASSUME TypeOK
  PROVE  IsFiniteSet(Requested) /\ Cardinality(Requested) \in Nat
  <1>1. IsFiniteSet(DOMAIN wire)
    <2>1. DOMAIN wire = 1..Len(wire) /\ Len(wire) \in Int
      BY NodeTypes
    <2> QED
      BY <2>1, FS_Interval
  <1>2. Requested \in SUBSET (DOMAIN wire)
    BY DEF Requested
  <1>3. IsFiniteSet(Requested)
    BY <1>1, <1>2, FS_Subset
  <1> QED
    BY <1>3, FS_CardinalityType

(* A message sent: it is the last one, and what was true of other messages *)
(* still is.                                                               *)
LEMMA WireAppend ==
  ASSUME TypeOK, NEW m \in Messages, wire' = Append(wire, m)
  PROVE  /\ wire' \in Seq(Messages) /\ Len(wire') = Len(wire) + 1
         /\ \A n : m # n /\ Absent(n) => Absent(n)'
         /\ \A p, n : m # n /\ LastIs(p, n) => LastIs(p, n)'
         /\ \A n : LastIs(m, n)'
         /\ \A i \in DOMAIN wire' : wire'[i] = m \/ \E j \in DOMAIN wire : wire[j] = wire'[i]
         /\ m.type # "tunnel_request" => Requested' = Requested
         /\ Cardinality(Requested)' <= Cardinality(Requested) + 1
  <1>1. wire \in Seq(Messages)
    BY NodeTypes
  <1>2. /\ wire' \in Seq(Messages) /\ Len(wire') = Len(wire) + 1 /\ Len(wire) \in Nat
        /\ DOMAIN wire' = 1..(Len(wire) + 1) /\ DOMAIN wire = 1..Len(wire)
        /\ wire'[Len(wire) + 1] = m
        /\ \A i \in DOMAIN wire : i \in DOMAIN wire' /\ wire'[i] = wire[i]
        /\ \A i \in DOMAIN wire' : i = Len(wire) + 1 \/ i \in DOMAIN wire
    BY <1>1, AppendFacts
  <1>3. ASSUME NEW n, m # n, Absent(n) PROVE Absent(n)'
    BY <1>2, <1>3 DEF Absent
  <1>4. ASSUME NEW p, NEW n, m # n, LastIs(p, n) PROVE LastIs(p, n)'
    <2>1. PICK i \in DOMAIN wire : wire[i] = p /\ \A j \in DOMAIN wire : j > i => wire[j] # n
      BY <1>4 DEF LastIs
    <2>2. i \in DOMAIN wire' /\ wire'[i] = p
      BY <1>2, <2>1
    <2>3. ASSUME NEW j \in DOMAIN wire', j > i PROVE wire'[j] # n
      BY <1>2, <1>4, <2>1, <2>3
    <2> QED
      BY <2>2, <2>3 DEF LastIs
  <1>5. ASSUME NEW n PROVE LastIs(m, n)'
    <2>1. Len(wire) + 1 \in DOMAIN wire' /\ wire'[Len(wire) + 1] = m
      BY <1>2
    <2>2. \A j \in DOMAIN wire' : ~(j > Len(wire) + 1)
      BY <1>2
    <2> QED
      BY <2>1, <2>2 DEF LastIs
  <1>6. Requested' \in {Requested, Requested \cup {Len(wire) + 1}}
        /\ (m.type # "tunnel_request" => Requested' = Requested)
    <2>1. CASE m.type = "tunnel_request"
      <3>1. Requested' = Requested \cup {Len(wire) + 1}
        BY <1>2, <2>1 DEF Requested
      <3> QED
        BY <2>1, <3>1
    <2>2. CASE m.type # "tunnel_request"
      <3>1. Requested' = Requested
        BY <1>2, <2>2 DEF Requested
      <3> QED
        BY <3>1
    <2> QED
      BY <2>1, <2>2
  <1>7. Cardinality(Requested)' <= Cardinality(Requested) + 1
    <2>1. IsFiniteSet(Requested) /\ Cardinality(Requested) \in Nat
      BY RequestedFinite
    <2>2. Cardinality(Requested \cup {Len(wire) + 1})
            \in {Cardinality(Requested), Cardinality(Requested) + 1}
      BY <2>1, FS_AddElement
    <2>3. Cardinality(Requested') \in {Cardinality(Requested), Cardinality(Requested) + 1}
      BY <1>6, <2>2
    <2> QED
      BY <2>1, <2>3
  <1>8. \A i \in DOMAIN wire' : wire'[i] = m \/ \E j \in DOMAIN wire : wire[j] = wire'[i]
    BY <1>2
  <1> QED
    BY <1>2, <1>3, <1>4, <1>5, <1>6, <1>7, <1>8

(* A message taken: it was the last of its kind or it was not.             *)
LEMMA WireTail ==
  ASSUME TypeOK, wire # <<>>, wire' = Tail(wire)
  PROVE  /\ wire' \in Seq(Messages) /\ Len(wire') = Len(wire) - 1
         /\ Head(wire) \in Messages
         /\ \E i \in DOMAIN wire : wire[i] = Head(wire)
         /\ \A n : Absent(n) => Absent(n)' /\ Head(wire) # n
         /\ \A p, n : LastIs(p, n) => LastIs(p, n)' \/ (Head(wire) = p /\ Absent(n)')
         /\ \A i \in DOMAIN wire' : \E j \in DOMAIN wire : wire[j] = wire'[i]
         /\ Cardinality(Requested)' <= Cardinality(Requested)
         /\ Head(wire).type = "tunnel_request"
              => Cardinality(Requested)' <= Cardinality(Requested) - 1
  <1>1. wire \in Seq(Messages)
    BY NodeTypes
  <1>2. /\ wire' \in Seq(Messages) /\ Len(wire') = Len(wire) - 1 /\ Len(wire) \in Nat
        /\ DOMAIN wire' = 1..(Len(wire) - 1) /\ DOMAIN wire = 1..Len(wire)
        /\ 1 \in DOMAIN wire /\ wire[1] = Head(wire) /\ Head(wire) \in Messages
        /\ \A i \in DOMAIN wire' : i + 1 \in DOMAIN wire /\ wire'[i] = wire[i + 1]
    BY <1>1, TailFacts
  <1>3. ASSUME NEW n, Absent(n) PROVE Absent(n)' /\ Head(wire) # n
    BY <1>2, <1>3 DEF Absent
  <1>4. ASSUME NEW p, NEW n, LastIs(p, n)
        PROVE  LastIs(p, n)' \/ (Head(wire) = p /\ Absent(n)')
    <2>1. PICK i \in DOMAIN wire : wire[i] = p /\ \A j \in DOMAIN wire : j > i => wire[j] # n
      BY <1>4 DEF LastIs
    <2>2. CASE i = 1
      <3>1. ASSUME NEW j \in DOMAIN wire' PROVE wire'[j] # n
        <4>1. j + 1 \in DOMAIN wire /\ j + 1 > i /\ wire'[j] = wire[j + 1]
          BY <1>2, <2>2
        <4> QED
          BY <2>1, <4>1
      <3> QED
        BY <1>2, <2>1, <2>2, <3>1 DEF Absent
    <2>3. CASE i # 1
      <3>1. i - 1 \in DOMAIN wire' /\ wire'[i - 1] = p
        <4>1. i - 1 \in DOMAIN wire' /\ (i - 1) + 1 = i
          BY <1>2, <2>3
        <4> QED
          BY <1>2, <2>1, <4>1
      <3>2. ASSUME NEW j \in DOMAIN wire', j > i - 1 PROVE wire'[j] # n
        <4>1. j + 1 \in DOMAIN wire /\ j + 1 > i /\ wire'[j] = wire[j + 1]
          BY <1>2, <3>2
        <4> QED
          BY <2>1, <4>1
      <3> QED
        BY <3>1, <3>2 DEF LastIs
    <2> QED
      BY <2>2, <2>3
  <1>5. /\ Cardinality(Requested)' <= Cardinality(Requested)
        /\ Head(wire).type = "tunnel_request"
              => Cardinality(Requested)' <= Cardinality(Requested) - 1
    <2>1. IsFiniteSet(Requested) /\ Cardinality(Requested) \in Nat
      BY RequestedFinite
    <2> DEFINE f == [i \in Requested' |-> i + 1]
               S == Requested'
               T == Requested \ {1}
    <2>2. f \in Injection(S, T)
      <3>1. \A i \in S : i \in Nat /\ i + 1 \in T
        BY <1>2 DEF Requested
      <3>2. f \in [S -> T]
        BY <3>1
      <3>3. \A a, b \in S : f[a] = f[b] => a = b
        BY <3>1
      <3> QED
        BY <3>2, <3>3 DEF Injection, IsInjective
    <2>3. /\ IsFiniteSet(T)
          /\ Cardinality(T) = IF 1 \in Requested THEN Cardinality(Requested) - 1
                              ELSE Cardinality(Requested)
      BY <2>1, FS_RemoveElement
    <2>4. IsFiniteSet(S) /\ Cardinality(S) <= Cardinality(T)
      BY <2>2, <2>3, FS_Injection
    <2>5. Cardinality(S) \in Nat /\ Cardinality(T) \in Nat
      BY <2>3, <2>4, FS_CardinalityType
    <2>6. Head(wire).type = "tunnel_request" => 1 \in Requested
      BY <1>2 DEF Requested
    <2> HIDE DEF S, T
    <2>7. /\ Cardinality(S) <= Cardinality(Requested)
          /\ Head(wire).type = "tunnel_request"
               => Cardinality(S) <= Cardinality(Requested) - 1
      BY <2>1, <2>3, <2>4, <2>5, <2>6
    <2> QED
      BY <2>7 DEF S
  <1>6. /\ \E i \in DOMAIN wire : wire[i] = Head(wire)
        /\ \A i \in DOMAIN wire' : \E j \in DOMAIN wire : wire[j] = wire'[i]
    BY <1>2
  <1> QED
    BY <1>2, <1>3, <1>4, <1>5, <1>6

(* Contexts changed in place are contexts.                                 *)
LEMMA TunnelsInPlace ==
  ASSUME TypeOK, NEW t, DOMAIN t = DOMAIN tunnels, t = [i \in DOMAIN tunnels |-> t[i]],
         \A i \in DOMAIN tunnels : t[i] \in TunnelRec
  PROVE  t \in Seq(TunnelRec) /\ Len(t) = Len(tunnels)
  <1>1. DOMAIN tunnels = 1..Len(tunnels) /\ Len(tunnels) \in Nat
    BY NodeTypes
  <1>2. t \in [1..Len(tunnels) -> TunnelRec]
    BY <1>1
  <1> QED
    BY <1>1, <1>2

(* Cancelling changes nothing but the contexts it names.                   *)
LEMMA CancelFacts ==
  ASSUME TypeOK, NEW S
  PROVE  LET t == Cancelled(S) IN
         /\ t \in Seq(TunnelRec) /\ Len(t) = Len(tunnels)
         /\ DOMAIN t = DOMAIN tunnels
         /\ \A i \in DOMAIN tunnels :
              /\ t[i] \in TunnelRec /\ t[i].key = tunnels[i].key
              /\ t[i].link = tunnels[i].link /\ t[i].pc = tunnels[i].pc
              /\ t[i].live => tunnels[i].live /\ i \notin S
              /\ i \notin S => t[i] = tunnels[i]
  <1> DEFINE t == Cancelled(S)
  <1>1. DOMAIN t = DOMAIN tunnels /\ t = [i \in DOMAIN tunnels |-> t[i]]
    BY DEF Cancelled
  <1>2. ASSUME NEW i \in DOMAIN tunnels
        PROVE  /\ t[i] \in TunnelRec /\ t[i].key = tunnels[i].key
               /\ t[i].link = tunnels[i].link /\ t[i].pc = tunnels[i].pc
               /\ t[i].live => tunnels[i].live /\ i \notin S
               /\ i \notin S => t[i] = tunnels[i]
    <2>1. tunnels[i] \in TunnelRec
      BY NodeTypes
    <2>2. CASE i \in S
      <3>1. t[i] = [tunnels[i] EXCEPT !.live = FALSE]
        BY <2>2 DEF Cancelled
      <3> QED
        BY <2>1, <2>2, <3>1 DEF TunnelRec
    <2>3. CASE i \notin S
      <3>1. t[i] = tunnels[i]
        BY <2>3 DEF Cancelled
      <3> QED
        BY <2>1, <2>3, <3>1
    <2> QED
      BY <2>2, <2>3
  <1>3. t \in Seq(TunnelRec) /\ Len(t) = Len(tunnels)
    BY <1>1, <1>2, TunnelsInPlace
  <1> QED
    BY <1>1, <1>2, <1>3

(* Only the server's proxies and what is under way decide whether a proxy  *)
(* is served or to be served, once the node's share is settled.            *)
LEMMA WirePartSame ==
  ASSUME ServedOrToBe, ClosedOrToBe, UNCHANGED <<srvVars, wire, up>>,
         \A k \in srv : ServedByNode(k) => ServedByNode(k)',
         \A k \in Proxies :
            LiveTunnels(k) \subseteq leaked => LiveTunnels(k)' \subseteq leaked'
  PROVE  ServedOrToBe' /\ ClosedOrToBe'
  <1>1. /\ srv' = srv /\ event' = event /\ listing' = listing /\ todo' = todo
        /\ raced' = raced /\ wire' = wire /\ up' = up
    BY DEF srvVars
  <1>2. \A m, n : (Absent(m)' <=> Absent(m)) /\ (LastIs(m, n)' <=> LastIs(m, n))
    BY <1>1 DEF Absent, LastIs
  <1>3. ASSUME up', NEW k \in srv'
        PROVE  \/ listing' = "list" \/ k \in todo' \/ event' = k
               \/ LastIs(Msg("proxy", k), Msg("proxy_closed", k))'
               \/ Absent(Msg("proxy_closed", k))' /\ ServedByNode(k)'
    BY <1>1, <1>2, <1>3 DEF ServedOrToBe
  <1>4. ASSUME up', NEW k \in Proxies \ srv'
        PROVE  \/ event' = k \/ k \in todo' \/ k \in raced'
               \/ LastIs(Msg("proxy_closed", k), Msg("proxy", k))'
               \/ Absent(Msg("proxy", k))' /\ LiveTunnels(k)' \subseteq leaked'
    BY <1>1, <1>2, <1>4 DEF ClosedOrToBe
  <1>5. \A t, k : Msg(t, k)' = Msg(t, k)
    BY DEF Msg
  <1> QED
    BY <1>3, <1>4, <1>5 DEF ServedOrToBe, ClosedOrToBe

\* A step that leaves the link alone keeps it in step.
LEMMA LinkSame ==
  ASSUME LinkInStep, UNCHANGED <<up, link, wire, listing, todo, pipes>>
  PROVE  LinkInStep'
  BY DEF LinkInStep, Requested

(* Steps that leave the node's tunnels alone.                              *)
LEMMA TunnelsSame ==
  ASSUME StoppedWithLink, TunnelsInStep,
         UNCHANGED <<tunnels, tunnelCtxs, proxyInfo, leaked, killed, link, up>>,
         \A p \in DOMAIN pipes' : pipes'[p].ctx \in DOMAIN tunnels
  PROVE  /\ StoppedWithLink' /\ TunnelsInStep'
         /\ \A k : ServedByNode(k)' <=> ServedByNode(k)
         /\ \A k : LiveTunnels(k)' = LiveTunnels(k)
  BY DEF StoppedWithLink, TunnelsInStep, ServedByNode, LiveTunnels

(* A goroutine moves on: its context stays as it is.                       *)
LEMMA GoroutineMoves ==
  ASSUME ClientInv, NEW i \in DOMAIN tunnels,
         NEW to \in {"top", "dial", "serve", "exit"},
         At(i, tunnels[i].pc, to), tunnels[i].pc # "ctx",
         to = "exit" /\ tunnels[i].live => Kind[tunnels[i].key] = "outbound"
  PROVE  ClientInv'
  <1> USE DEF ClientInv
  <1>1. /\ tunnels' = [tunnels EXCEPT ![i].pc = to]
        /\ UNCHANGED <<srvVars, linkVars, wire, reader, out, tunnelCtxs, proxyInfo,
                       leaked, killed, pipes>>
    BY DEF At
  <1>2. tunnels[i] \in TunnelRec
    BY NodeTypes
  <1>3. /\ DOMAIN tunnels' = DOMAIN tunnels /\ tunnels' = [j \in DOMAIN tunnels |-> tunnels'[j]]
        /\ tunnels'[i] = [tunnels[i] EXCEPT !.pc = to]
        /\ \A j \in DOMAIN tunnels : j # i => tunnels'[j] = tunnels[j]
    BY <1>1
  <1>4. /\ tunnels'[i] \in TunnelRec /\ tunnels'[i].key = tunnels[i].key
        /\ tunnels'[i].link = tunnels[i].link /\ tunnels'[i].live = tunnels[i].live
        /\ tunnels'[i].pc = to
    BY <1>2, <1>3 DEF TunnelRec
  <1>5. \A j \in DOMAIN tunnels :
          /\ tunnels'[j] \in TunnelRec /\ tunnels'[j].key = tunnels[j].key
          /\ tunnels'[j].link = tunnels[j].link /\ tunnels'[j].live = tunnels[j].live
    BY <1>3, <1>4, NodeTypes
  <1>6. tunnels' \in Seq(TunnelRec) /\ Len(tunnels') = Len(tunnels)
    BY <1>3, <1>5, TunnelsInPlace
  <1>7. TypeOK'
    BY <1>1, <1>6 DEF TypeOK, TunnelRec, srvVars, linkVars
  <1>8. StoppedWithLink'
    BY <1>1, <1>3, <1>5 DEF StoppedWithLink, linkVars
  <1>9. TunnelsInStep'
    <2>1. ASSUME NEW k \in Keys, tunnelCtxs'[k] # 0
          PROVE  /\ tunnelCtxs'[k] \in DOMAIN tunnels'
                 /\ tunnels'[tunnelCtxs'[k]].key = k
                 /\ tunnels'[tunnelCtxs'[k]].link = link'
                 /\ \A j \in DOMAIN tunnels' :
                      tunnels'[j].key = k /\ tunnels'[j].link = link' => j <= tunnelCtxs'[k]
      BY <1>1, <1>3, <1>5, <2>1 DEF TunnelsInStep, linkVars
    <2>2. ASSUME NEW j \in DOMAIN tunnels'
          PROVE  /\ tunnels'[j].link <= link'
                 /\ tunnels'[j].live => tunnelCtxs'[tunnels'[j].key] = j \/ j \in leaked'
                 /\ tunnels'[j].pc = "exit" /\ tunnels'[j].live
                      => Kind[tunnels'[j].key] = "outbound"
                 /\ Kind[tunnels'[j].key] = "tcp" => tunnels'[j].pc = "ctx"
      <3>1. j \in DOMAIN tunnels
        BY <1>3
      <3>2. CASE j = i
        BY <1>1, <1>4, <3>1, <3>2 DEF TunnelsInStep, linkVars
      <3>3. CASE j # i
        BY <1>1, <1>3, <3>1, <3>3 DEF TunnelsInStep, linkVars
      <3> QED
        BY <3>2, <3>3
    <2>3. /\ \A j \in killed' : j \in DOMAIN tunnels'
          /\ \A p \in DOMAIN pipes' : pipes'[p].ctx \in DOMAIN tunnels'
          /\ \A k \in Keys : proxyInfo'[k] # 0 => proxyInfo'[k] \in DOMAIN tunnels'
      BY <1>1, <1>3 DEF TunnelsInStep
    <2> QED
      BY <2>1, <2>2, <2>3 DEF TunnelsInStep
  <1>10. LinkInStep'
    BY <1>1, LinkSame DEF srvVars, linkVars
  <1>11. ServedOrToBe' /\ ClosedOrToBe'
    <2>1. \A k : LiveTunnels(k)' = LiveTunnels(k)
      BY <1>3, <1>5 DEF LiveTunnels
    <2>2. ASSUME NEW k, ServedByNode(k) PROVE ServedByNode(k)'
      <3>1. CASE tunnelCtxs[k] # 0 /\ tunnelCtxs[k] \in LiveTunnels(k)
        BY <1>1, <2>1, <3>1 DEF ServedByNode
      <3>2. CASE \E j \in killed :
                   /\ tunnels[j].key = k /\ tunnels[j].link = link
                   /\ \A l \in DOMAIN tunnels :
                        tunnels[l].key = k /\ tunnels[l].link = link => l <= j
        <4>1. PICK j \in killed :
                   /\ tunnels[j].key = k /\ tunnels[j].link = link
                   /\ \A l \in DOMAIN tunnels :
                        tunnels[l].key = k /\ tunnels[l].link = link => l <= j
          BY <3>2
        <4>2. j \in DOMAIN tunnels
          BY DEF TunnelsInStep
        <4>3. /\ tunnels'[j].key = k /\ tunnels'[j].link = link' /\ j \in killed'
              /\ \A l \in DOMAIN tunnels' :
                   tunnels'[l].key = k /\ tunnels'[l].link = link' => l <= j
          BY <1>1, <1>3, <1>5, <4>1, <4>2 DEF linkVars
        <4> QED
          BY <4>3 DEF ServedByNode
      <3> QED
        BY <2>2, <3>1, <3>2 DEF ServedByNode
    <2> QED
      BY <1>1, <2>1, <2>2, WirePartSame DEF linkVars
  <1> QED
    BY <1>7, <1>8, <1>9, <1>10, <1>11

MessageTypes == {"proxy", "proxy_closed", "tunnel_request", "proxy_outbound", "ping"}

(* What a message sent does to the connection, and to messages about       *)
(* proxies that it is not.                                                 *)
LEMMA SendKeeps ==
  ASSUME ClientInv, NEW k \in Keys, NEW type \in MessageTypes,
         SendToClient(type, k), UNCHANGED <<linkVars, pipes>>,
         type = "proxy_outbound" => Kind[k] = "outbound",
         type = "tunnel_request" => up /\ Len(pipes) + Cardinality(Requested) < MaxPipes,
         listing' = listing, todo' \subseteq todo
  PROVE  /\ wire' \in Seq(Messages) /\ Len(wire') <= WireCap /\ LinkInStep'
         /\ up => \A n : LastIs(Msg(type, k), n)'
         /\ \A n : n # Msg(type, k) /\ Absent(n) => Absent(n)'
         /\ \A p, n : n # Msg(type, k) /\ LastIs(p, n) => LastIs(p, n)'
  <1> USE NodeNumbers DEF ClientInv, linkVars, MessageTypes
  <1> DEFINE m == Msg(type, k)
  <1>t. wire \in Seq(Messages) /\ Len(wire) <= WireCap /\ up \in BOOLEAN
    BY DEF TypeOK
  <1>1. CASE up
    <2>1. m \in Messages /\ m.type = type /\ m.key = k
      BY MsgType
    <2>2. Len(wire) < WireCap /\ wire' = Append(wire, m)
      BY <1>1 DEF SendToClient, Msg
    <2> HIDE DEF m
    <2>3. /\ wire' \in Seq(Messages) /\ Len(wire') = Len(wire) + 1
          /\ \A n : m # n /\ Absent(n) => Absent(n)'
          /\ \A p, n : m # n /\ LastIs(p, n) => LastIs(p, n)'
          /\ \A n : LastIs(m, n)'
          /\ \A i \in DOMAIN wire' :
               wire'[i] = m \/ \E j \in DOMAIN wire : wire[j] = wire'[i]
          /\ m.type # "tunnel_request" => Requested' = Requested
          /\ Cardinality(Requested)' <= Cardinality(Requested) + 1
      BY <2>1, <2>2, WireAppend
    <2>4. Len(wire') <= WireCap
      BY <1>t, <2>2, <2>3
    <2>5. LinkInStep'
      <3>1. up' /\ link' # 0 /\ (listing' # "send" => todo' = {})
        BY <1>1 DEF LinkInStep
      <3>2. \A i \in DOMAIN wire' :
              wire'[i].type = "proxy_outbound" => Kind[wire'[i].key] = "outbound"
        BY <2>1, <2>3 DEF LinkInStep
      <3>3. Len(pipes') + Cardinality(Requested') <= MaxPipes
        <4>1. CASE type = "tunnel_request"
          <5>1. Cardinality(Requested) \in Nat /\ Len(pipes) \in Nat
            BY RequestedFinite, NodeTypes
          <5>2. IsFiniteSet(Requested')
            <6>1. Requested' \in SUBSET (1..(Len(wire) + 1))
              BY <1>t, <2>2 DEF Requested
            <6>2. IsFiniteSet(1..(Len(wire) + 1))
              BY <1>t, FS_Interval
            <6> QED
              BY <6>1, <6>2, FS_Subset
          <5>3. Cardinality(Requested') \in Nat
            BY <5>2, FS_CardinalityType
          <5> QED
            BY <2>3, <4>1, <5>1, <5>3
        <4>2. CASE type # "tunnel_request"
          BY <2>1, <2>3, <4>2 DEF LinkInStep
        <4> QED
          BY <4>1, <4>2
      <3> QED
        BY <3>1, <3>2, <3>3 DEF LinkInStep
    <2> QED
      BY <2>3, <2>4, <2>5 DEF m
  <1>2. CASE ~up
    <2>1. wire' = wire
      BY <1>2 DEF SendToClient
    <2>2. \A p, n : (Absent(n)' <=> Absent(n)) /\ (LastIs(p, n)' <=> LastIs(p, n))
      BY <2>1 DEF Absent, LastIs
    <2>3. LinkInStep'
      BY <2>1 DEF LinkInStep, Requested
    <2> QED
      BY <1>2, <1>t, <2>1, <2>2, <2>3
  <1> QED
    BY <1>1, <1>2

(* The server's steps leave the node alone.                                *)
LEMMA NodeUntouched ==
  ASSUME ClientInv, UNCHANGED <<linkVars, nodeVars, pipes, reader>>,
         srv' \subseteq Proxies, todo' \subseteq Proxies, raced' \subseteq Proxies,
         event' \in Proxies \cup {None}, listing' \in {"none", "list", "send"},
         changes' \in 0..MaxChanges, out' \in 0..OutCap,
         wire' \in Seq(Messages), Len(wire') <= WireCap
  PROVE  /\ TypeOK' /\ StoppedWithLink' /\ TunnelsInStep'
         /\ \A k : ServedByNode(k)' <=> ServedByNode(k)
         /\ \A k : LiveTunnels(k)' = LiveTunnels(k)
  <1> USE DEF ClientInv, linkVars, nodeVars
  <1>1. TypeOK'
    BY DEF TypeOK
  <1>2. \A p \in DOMAIN pipes' : pipes'[p].ctx \in DOMAIN tunnels
    BY DEF TunnelsInStep
  <1> QED
    BY <1>1, <1>2, TunnelsSame

(* AddProxy and DeleteProxy: the event tells of the change.                *)
LEMMA ChangeSafe ==
  ASSUME ClientInv, NEW k \in Keys, AddProxy(k) \/ DeleteProxy(k)
  PROVE  ClientInv'
  <1>1. /\ event = None /\ event' = k /\ k \in Proxies /\ changes < MaxChanges
        /\ changes' = changes + 1 /\ srv' \subseteq Proxies /\ raced' \subseteq raced
        /\ \A j \in Proxies : j # k => (j \in srv' <=> j \in srv)
        /\ \A j \in Proxies : j # k => (j \in raced' <=> j \in raced)
        /\ UNCHANGED <<listing, todo, linkVars, wire, reader, out, nodeVars, pipes>>
    BY DEF AddProxy, DeleteProxy, ClientInv, TypeOK
  <1>t. /\ changes \in 0..MaxChanges /\ todo \subseteq Proxies /\ raced \subseteq Proxies
        /\ listing \in {"none", "list", "send"} /\ srv \subseteq Proxies
        /\ out \in 0..OutCap /\ wire \in Seq(Messages) /\ Len(wire) <= WireCap
    BY DEF ClientInv, TypeOK
  <1>2. changes' \in 0..MaxChanges
    BY <1>1, <1>t, NodeNumbers
  <1>3. /\ TypeOK' /\ StoppedWithLink' /\ TunnelsInStep'
        /\ \A j : ServedByNode(j)' <=> ServedByNode(j)
        /\ \A j : LiveTunnels(j)' = LiveTunnels(j)
    BY <1>1, <1>2, <1>t, NodeUntouched
  <1>4. LinkInStep'
    BY <1>1, LinkSame DEF linkVars, ClientInv
  <1>5. \A m, n : (Absent(m)' <=> Absent(m)) /\ (LastIs(m, n)' <=> LastIs(m, n))
    BY <1>1 DEF Absent, LastIs
  <1>6. \A t, j : Msg(t, j)' = Msg(t, j)
    BY DEF Msg
  <1>7. \A j \in Proxies : event # j
    BY <1>1, MsgType
  <1>8. ServedOrToBe'
    <2> SUFFICES ASSUME up', NEW j \in srv', event' # j
                 PROVE  \/ listing' = "list" \/ j \in todo'
                        \/ LastIs(Msg("proxy", j), Msg("proxy_closed", j))'
                        \/ Absent(Msg("proxy_closed", j))' /\ ServedByNode(j)'
      BY <1>6 DEF ServedOrToBe
    <2>1. j \in srv /\ up /\ event # j
      BY <1>1, <1>7 DEF linkVars
    <2> QED
      BY <1>1, <1>3, <1>5, <2>1 DEF ServedOrToBe, ClientInv
  <1>9. ClosedOrToBe'
    <2> SUFFICES ASSUME up', NEW j \in Proxies \ srv', event' # j
                 PROVE  \/ j \in todo' \/ j \in raced'
                        \/ LastIs(Msg("proxy_closed", j), Msg("proxy", j))'
                        \/ Absent(Msg("proxy", j))' /\ LiveTunnels(j)' \subseteq leaked'
      BY <1>6 DEF ClosedOrToBe
    <2>1. j \in Proxies \ srv /\ up /\ event # j
      BY <1>1, <1>7 DEF linkVars
    <2> QED
      BY <1>1, <1>3, <1>5, <2>1 DEF ClosedOrToBe, ClientInv, nodeVars
  <1> QED
    BY <1>3, <1>4, <1>8, <1>9 DEF ClientInv

(* handleProxyEvent tells the client of the change.                        *)
LEMMA NotifySafe ==
  ASSUME ClientInv, NotifyProxyClient \/ HandleProxyDeleted
  PROVE  ClientInv'
  <1>0. PICK e, type : e = event /\ type = IF event \in srv THEN "proxy" ELSE "proxy_closed"
    OBVIOUS
  <1>1. /\ e \in Proxies /\ SendToClient(type, e) /\ event' = None
        /\ UNCHANGED <<srv, listing, todo, changes, raced, linkVars, reader, out,
                       nodeVars, pipes>>
    BY <1>0 DEF NotifyProxyClient, HandleProxyDeleted, ClientInv, TypeOK
  <1>t. /\ changes \in 0..MaxChanges /\ todo \subseteq Proxies /\ raced \subseteq Proxies
        /\ listing \in {"none", "list", "send"} /\ srv \subseteq Proxies
        /\ out \in 0..OutCap
    BY DEF ClientInv, TypeOK
  <1>2. e \in Keys /\ type \in MessageTypes /\ type \notin {"proxy_outbound", "tunnel_request"}
    BY <1>0, <1>1, MsgType DEF MessageTypes
  <1>3. /\ wire' \in Seq(Messages) /\ Len(wire') <= WireCap /\ LinkInStep'
        /\ up => \A n : LastIs(Msg(type, e), n)'
        /\ \A n : n # Msg(type, e) /\ Absent(n) => Absent(n)'
        /\ \A p, n : n # Msg(type, e) /\ LastIs(p, n) => LastIs(p, n)'
    BY <1>1, <1>2, SendKeeps
  <1>4. /\ TypeOK' /\ StoppedWithLink' /\ TunnelsInStep'
        /\ \A j : ServedByNode(j)' <=> ServedByNode(j)
        /\ \A j : LiveTunnels(j)' = LiveTunnels(j)
    BY <1>1, <1>3, <1>t, NodeUntouched
  <1>6. \A t, j : Msg(t, j)' = Msg(t, j)
    BY DEF Msg
  <1>8. ServedOrToBe'
    <2> SUFFICES ASSUME up', NEW j \in srv', listing' # "list", j \notin todo'
                 PROVE  \/ LastIs(Msg("proxy", j), Msg("proxy_closed", j))'
                        \/ Absent(Msg("proxy_closed", j))' /\ ServedByNode(j)'
      BY <1>6 DEF ServedOrToBe
    <2>1. j \in srv /\ up /\ listing # "list" /\ j \notin todo
      BY <1>1 DEF linkVars
    <2>2. CASE j = e
      BY <1>0, <1>3, <2>1, <2>2
    <2>3. CASE j # e
      <3>1. Msg("proxy_closed", j) # Msg(type, e)
        BY <2>3, MsgEq
      <3> QED
        BY <1>3, <1>4, <2>1, <2>3, <3>1, <1>0 DEF ServedOrToBe, ClientInv
    <2> QED
      BY <2>2, <2>3
  <1>9. ClosedOrToBe'
    <2> SUFFICES ASSUME up', NEW j \in Proxies \ srv', j \notin todo', j \notin raced'
                 PROVE  \/ LastIs(Msg("proxy_closed", j), Msg("proxy", j))'
                        \/ Absent(Msg("proxy", j))' /\ LiveTunnels(j)' \subseteq leaked'
      BY <1>6 DEF ClosedOrToBe
    <2>1. j \in Proxies \ srv /\ up /\ j \notin todo /\ j \notin raced /\ leaked' = leaked
      BY <1>1 DEF linkVars, nodeVars
    <2>2. CASE j = e
      BY <1>0, <1>3, <2>1, <2>2
    <2>3. CASE j # e
      <3>1. Msg("proxy", j) # Msg(type, e)
        BY <2>3, MsgEq
      <3> QED
        BY <1>3, <1>4, <2>1, <2>3, <3>1, <1>0 DEF ClosedOrToBe, ClientInv
    <2> QED
      BY <2>2, <2>3
  <1> QED
    BY <1>3, <1>4, <1>8, <1>9 DEF ClientInv

(* The sync lists the store; a proxy it sends too late is in raced.        *)
LEMMA SyncListSafe ==
  ASSUME ClientInv, SyncList
  PROVE  ClientInv'
  <1>1. /\ up /\ listing = "list" /\ listing' = "send" /\ todo' = srv
        /\ UNCHANGED <<srv, event, changes, raced, linkVars, wire, reader, out,
                       nodeVars, pipes>>
    BY DEF SyncList
  <1>t. /\ changes \in 0..MaxChanges /\ raced \subseteq Proxies
        /\ srv \subseteq Proxies /\ event \in Proxies \cup {None}
        /\ out \in 0..OutCap /\ wire \in Seq(Messages) /\ Len(wire) <= WireCap
    BY DEF ClientInv, TypeOK
  <1>2. todo = {}
    BY <1>1 DEF ClientInv, LinkInStep
  <1>3. /\ TypeOK' /\ StoppedWithLink' /\ TunnelsInStep'
        /\ \A j : ServedByNode(j)' <=> ServedByNode(j)
        /\ \A j : LiveTunnels(j)' = LiveTunnels(j)
    BY <1>1, <1>t, NodeUntouched
  <1>4. LinkInStep'
    BY <1>1 DEF LinkInStep, linkVars, ClientInv, Requested
  <1>5. \A m, n : (Absent(m)' <=> Absent(m)) /\ (LastIs(m, n)' <=> LastIs(m, n))
    BY <1>1 DEF Absent, LastIs
  <1>6. \A t, j : Msg(t, j)' = Msg(t, j)
    BY DEF Msg
  <1>7. ServedOrToBe'
    BY <1>1 DEF ServedOrToBe
  <1>8. ClosedOrToBe'
    <2> SUFFICES ASSUME up', NEW j \in Proxies \ srv', j \notin raced', event' # j
                 PROVE  \/ LastIs(Msg("proxy_closed", j), Msg("proxy", j))'
                        \/ Absent(Msg("proxy", j))' /\ LiveTunnels(j)' \subseteq leaked'
      BY <1>6 DEF ClosedOrToBe
    <2>1. j \in Proxies \ srv /\ up /\ event # j /\ leaked' = leaked
          /\ j \notin raced /\ j \notin todo
      BY <1>1, <1>2 DEF linkVars, nodeVars
    <2> QED
      BY <1>3, <1>5, <2>1 DEF ClosedOrToBe, ClientInv
  <1> QED
    BY <1>3, <1>4, <1>7, <1>8 DEF ClientInv

\* Sending one entry of the synchronisation keeps the client's invariant.
LEMMA SyncSendSafe ==
  ASSUME ClientInv, NEW k \in Keys, SyncSend(k)
  PROVE  ClientInv'
  <1>1. /\ up /\ k \in todo /\ SendToClient("proxy", k) /\ todo' = todo \ {k}
        /\ raced' = IF k \in srv THEN raced ELSE raced \cup {k}
        /\ UNCHANGED <<srv, event, listing, changes, linkVars, reader, out,
                       nodeVars, pipes>>
    BY DEF SyncSend
  <1>t. /\ changes \in 0..MaxChanges /\ todo \subseteq Proxies /\ raced \subseteq Proxies
        /\ listing \in {"none", "list", "send"} /\ srv \subseteq Proxies
        /\ out \in 0..OutCap /\ event \in Proxies \cup {None}
    BY DEF ClientInv, TypeOK
  <1>3. /\ wire' \in Seq(Messages) /\ Len(wire') <= WireCap /\ LinkInStep'
        /\ \A n : LastIs(Msg("proxy", k), n)'
        /\ \A n : n # Msg("proxy", k) /\ Absent(n) => Absent(n)'
        /\ \A p, n : n # Msg("proxy", k) /\ LastIs(p, n) => LastIs(p, n)'
    <2>1. "proxy" \in MessageTypes
      BY DEF MessageTypes
    <2> QED
      BY <1>1, <2>1, SendKeeps
  <1>4. /\ TypeOK' /\ StoppedWithLink' /\ TunnelsInStep'
        /\ \A j : ServedByNode(j)' <=> ServedByNode(j)
        /\ \A j : LiveTunnels(j)' = LiveTunnels(j)
    <2>1. todo' \subseteq Proxies /\ raced' \subseteq Proxies
      BY <1>1, <1>t
    <2> QED
      BY <1>1, <1>3, <1>t, <2>1, NodeUntouched
  <1>6. \A t, j : Msg(t, j)' = Msg(t, j)
    BY DEF Msg
  <1>8. ServedOrToBe'
    <2> SUFFICES ASSUME up', NEW j \in srv', listing' # "list", j \notin todo', event' # j
                 PROVE  \/ LastIs(Msg("proxy", j), Msg("proxy_closed", j))'
                        \/ Absent(Msg("proxy_closed", j))' /\ ServedByNode(j)'
      BY <1>6 DEF ServedOrToBe
    <2>1. j \in srv /\ up /\ listing # "list" /\ event # j
      BY <1>1 DEF linkVars
    <2>2. CASE j = k
      BY <1>3, <2>2
    <2>3. CASE j # k
      <3>1. Msg("proxy_closed", j) # Msg("proxy", k) /\ j \notin todo
        BY <1>1, <2>3, MsgEq
      <3> QED
        BY <1>3, <1>4, <2>1, <3>1 DEF ServedOrToBe, ClientInv
    <2> QED
      BY <2>2, <2>3
  <1>9. ClosedOrToBe'
    <2> SUFFICES ASSUME up', NEW j \in Proxies \ srv', j \notin todo', j \notin raced',
                        event' # j
                 PROVE  \/ LastIs(Msg("proxy_closed", j), Msg("proxy", j))'
                        \/ Absent(Msg("proxy", j))' /\ LiveTunnels(j)' \subseteq leaked'
      BY <1>6 DEF ClosedOrToBe
    <2>1. j \in Proxies \ srv /\ up /\ event # j /\ leaked' = leaked
      BY <1>1 DEF linkVars, nodeVars
    <2>2. j # k /\ j \notin todo /\ j \notin raced
      BY <1>1, <2>1
    <2>3. Msg("proxy", j) # Msg("proxy", k)
      BY <2>2, MsgEq
    <2> QED
      BY <1>3, <1>4, <2>1, <2>2, <2>3 DEF ClosedOrToBe, ClientInv
  <1> QED
    BY <1>3, <1>4, <1>8, <1>9 DEF ClientInv

(* A message that is not about a proxy.                                    *)
LEMMA OtherSendSafe ==
  ASSUME ClientInv, NEW k \in Keys,
         TunnelRequest(k) \/ \E type \in {"proxy_outbound", "ping"} : OtherMessage(type, k)
  PROVE  ClientInv'
  <1>1. PICK type \in {"tunnel_request", "proxy_outbound", "ping"} :
          /\ SendToClient(type, k) /\ up
          /\ type = "proxy_outbound" => Kind[k] = "outbound"
          /\ type = "tunnel_request" => Len(pipes) + Cardinality(Requested) < MaxPipes
    BY DEF TunnelRequest, OtherMessage
  <1>2. UNCHANGED <<srv, event, listing, todo, raced, linkVars, reader, out,
                    nodeVars, pipes>>
    BY DEF TunnelRequest, OtherMessage, srvVars
  <1>t. /\ changes \in 0..MaxChanges /\ todo \subseteq Proxies /\ raced \subseteq Proxies
        /\ listing \in {"none", "list", "send"} /\ srv \subseteq Proxies
        /\ out \in 0..OutCap /\ event \in Proxies \cup {None}
    BY DEF ClientInv, TypeOK
  <1>c. changes' \in 0..MaxChanges
    <2>1. changes' = changes \/ (changes < MaxChanges /\ changes' = changes + 1)
      BY DEF TunnelRequest, OtherMessage, srvVars
    <2> QED
      BY <1>t, <2>1, NodeNumbers
  <1>3. /\ wire' \in Seq(Messages) /\ Len(wire') <= WireCap /\ LinkInStep'
        /\ \A n : n # Msg(type, k) /\ Absent(n) => Absent(n)'
        /\ \A p, n : n # Msg(type, k) /\ LastIs(p, n) => LastIs(p, n)'
    <2>1. type \in MessageTypes
      BY DEF MessageTypes
    <2> QED
      BY <1>1, <1>2, <2>1, SendKeeps
  <1>4. /\ TypeOK' /\ StoppedWithLink' /\ TunnelsInStep'
        /\ \A j : ServedByNode(j)' <=> ServedByNode(j)
        /\ \A j : LiveTunnels(j)' = LiveTunnels(j)
    BY <1>2, <1>3, <1>c, <1>t, NodeUntouched
  <1>5. \A j : Msg("proxy", j) # Msg(type, k) /\ Msg("proxy_closed", j) # Msg(type, k)
    BY MsgEq
  <1>6. \A t, j : Msg(t, j)' = Msg(t, j)
    BY DEF Msg
  <1>7. ServedOrToBe'
    <2> SUFFICES ASSUME up', NEW j \in srv', listing' # "list", j \notin todo', event' # j
                 PROVE  \/ LastIs(Msg("proxy", j), Msg("proxy_closed", j))'
                        \/ Absent(Msg("proxy_closed", j))' /\ ServedByNode(j)'
      BY <1>6 DEF ServedOrToBe
    <2>1. j \in srv /\ up /\ listing # "list" /\ event # j /\ j \notin todo
      BY <1>1, <1>2
    <2> QED
      BY <1>3, <1>4, <1>5, <2>1 DEF ServedOrToBe, ClientInv
  <1>8. ClosedOrToBe'
    <2> SUFFICES ASSUME up', NEW j \in Proxies \ srv', j \notin todo', j \notin raced',
                        event' # j
                 PROVE  \/ LastIs(Msg("proxy_closed", j), Msg("proxy", j))'
                        \/ Absent(Msg("proxy", j))' /\ LiveTunnels(j)' \subseteq leaked'
      BY <1>6 DEF ClosedOrToBe
    <2>1. j \in Proxies \ srv /\ up /\ event # j /\ leaked' = leaked
          /\ j \notin todo /\ j \notin raced
      BY <1>1, <1>2 DEF nodeVars
    <2> QED
      BY <1>3, <1>4, <1>5, <2>1 DEF ClosedOrToBe, ClientInv
  <1> QED
    BY <1>3, <1>4, <1>7, <1>8 DEF ClientInv

(* What readPump's taking a message does to the connection.                *)
LEMMA ReceiveKeeps ==
  ASSUME ClientInv, NEW k \in Keys, NEW type \in MessageTypes, Receive(type, k),
         UNCHANGED <<srvVars, linkVars>>,
         \/ pipes' = pipes
         \/ type = "tunnel_request" /\ Len(pipes') = Len(pipes) + 1
  PROVE  /\ up /\ Head(wire) = Msg(type, k)
         /\ wire' \in Seq(Messages) /\ Len(wire') <= WireCap /\ LinkInStep'
         /\ Len(pipes') <= MaxPipes
         /\ type = "proxy_outbound" => Kind[k] = "outbound"
  <1> USE NodeNumbers DEF ClientInv, linkVars, srvVars, MessageTypes
  <1>1. up /\ wire # <<>> /\ Head(wire) = Msg(type, k) /\ wire' = Tail(wire)
    BY DEF Receive, Msg
  <1>2. /\ wire' \in Seq(Messages) /\ Len(wire') = Len(wire) - 1
        /\ \E i \in DOMAIN wire : wire[i] = Head(wire)
        /\ \A i \in DOMAIN wire' : \E j \in DOMAIN wire : wire[j] = wire'[i]
        /\ Cardinality(Requested)' <= Cardinality(Requested)
        /\ Head(wire).type = "tunnel_request"
             => Cardinality(Requested)' <= Cardinality(Requested) - 1
    BY <1>1, WireTail
  <1>3. Len(wire') <= WireCap
    <2>1. Len(wire) \in Nat /\ Len(wire) <= WireCap
      BY NodeTypes DEF TypeOK
    <2> QED
      BY <1>2, <2>1
  <1>4. Head(wire).type = type /\ Head(wire).key = k
    BY <1>1, MsgType
  <1>5. \A i \in DOMAIN wire :
          wire[i].type = "proxy_outbound" => Kind[wire[i].key] = "outbound"
    BY DEF LinkInStep
  <1>6. type = "proxy_outbound" => Kind[k] = "outbound"
    BY <1>2, <1>4, <1>5
  <1>7. /\ Len(pipes') + Cardinality(Requested') <= MaxPipes
        /\ Len(pipes') <= MaxPipes
    <2>1. /\ Len(pipes) + Cardinality(Requested) <= MaxPipes
          /\ Len(pipes) \in Nat /\ Cardinality(Requested) \in Nat
      BY RequestedFinite, NodeTypes DEF LinkInStep
    <2>2. Cardinality(Requested') \in Nat
      <3>1. Requested' \in SUBSET (1..Len(wire')) /\ Len(wire') \in Int
        BY <1>2 DEF Requested
      <3>2. IsFiniteSet(1..Len(wire'))
        BY <3>1, FS_Interval
      <3> QED
        BY <3>1, <3>2, FS_Subset, FS_CardinalityType
    <2>3. CASE pipes' = pipes
      BY <1>2, <2>1, <2>2, <2>3
    <2>4. CASE type = "tunnel_request" /\ Len(pipes') = Len(pipes) + 1
      BY <1>2, <1>4, <2>1, <2>2, <2>4
    <2> QED
      BY <2>3, <2>4
  <1>8. LinkInStep'
    <2>1. up' /\ link' # 0 /\ (listing' # "send" => todo' = {})
      BY <1>1 DEF LinkInStep
    <2>2. \A i \in DOMAIN wire' :
            wire'[i].type = "proxy_outbound" => Kind[wire'[i].key] = "outbound"
      BY <1>2, <1>5
    <2> QED
      BY <1>7, <2>1, <2>2 DEF LinkInStep
  <1> QED
    BY <1>1, <1>2, <1>3, <1>6, <1>7, <1>8

(* What a proxy's being served or closed needs of the handler of the       *)
(* message: that it does what the message says, and nothing to the other   *)
(* proxies.                                                                *)
LEMMA ReceiveParts ==
  ASSUME ClientInv, NEW m, wire # <<>>, Head(wire) = m, wire' = Tail(wire),
         UNCHANGED <<srvVars, up>>,
         \A j \in srv :
            /\ m # Msg("proxy_closed", j) /\ ServedByNode(j) => ServedByNode(j)'
            /\ m = Msg("proxy", j) => ServedByNode(j)',
         \A j \in Proxies :
            /\ m # Msg("proxy", j) /\ LiveTunnels(j) \subseteq leaked
                 => LiveTunnels(j)' \subseteq leaked'
            /\ m = Msg("proxy_closed", j) => LiveTunnels(j)' \subseteq leaked'
  PROVE  ServedOrToBe' /\ ClosedOrToBe'
  <1> USE DEF ClientInv, srvVars
  <1>1. /\ \A n : Absent(n) => Absent(n)' /\ m # n
        /\ \A p, n : LastIs(p, n) => LastIs(p, n)' \/ (m = p /\ Absent(n)')
    BY WireTail
  <1>2. \A t, j : Msg(t, j)' = Msg(t, j)
    BY DEF Msg
  <1>3. ServedOrToBe'
    <2> SUFFICES ASSUME up', NEW j \in srv', listing' # "list", j \notin todo', event' # j
                 PROVE  \/ LastIs(Msg("proxy", j), Msg("proxy_closed", j))'
                        \/ Absent(Msg("proxy_closed", j))' /\ ServedByNode(j)'
      BY <1>2 DEF ServedOrToBe
    <2>1. j \in srv
      OBVIOUS
    <2>2. CASE LastIs(Msg("proxy", j), Msg("proxy_closed", j))
      BY <1>1, <2>1, <2>2
    <2>3. CASE Absent(Msg("proxy_closed", j)) /\ ServedByNode(j)
      BY <1>1, <2>1, <2>3
    <2> QED
      BY <2>1, <2>2, <2>3 DEF ServedOrToBe
  <1>4. ClosedOrToBe'
    <2> SUFFICES ASSUME up', NEW j \in Proxies \ srv', j \notin todo', j \notin raced',
                        event' # j
                 PROVE  \/ LastIs(Msg("proxy_closed", j), Msg("proxy", j))'
                        \/ Absent(Msg("proxy", j))' /\ LiveTunnels(j)' \subseteq leaked'
      BY <1>2 DEF ClosedOrToBe
    <2>1. j \in Proxies \ srv
      OBVIOUS
    <2>2. CASE LastIs(Msg("proxy_closed", j), Msg("proxy", j))
      BY <1>1, <2>1, <2>2
    <2>3. CASE Absent(Msg("proxy", j)) /\ LiveTunnels(j) \subseteq leaked
      BY <1>1, <2>1, <2>3
    <2> QED
      BY <2>1, <2>2, <2>3 DEF ClosedOrToBe
  <1> QED
    BY <1>3, <1>4

(* registerTunnel: the new context is the newest of its key, and an older  *)
(* live one in the table is leaked.                                        *)
LEMMA RegisterFacts ==
  ASSUME ClientInv, NEW k \in Keys, NEW pc \in {"ctx", "top", "dial"}, up,
         RegisterTunnel(k, pc), UNCHANGED <<linkVars, killed, pipes>>,
         Kind[k] = "tcp" => pc = "ctx",
         \A j \in Keys : proxyInfo'[j] \in {proxyInfo[j], Len(tunnels) + 1}
  PROVE  /\ tunnels' \in Seq(TunnelRec) /\ Len(tunnels') <= MaxTunnels
         /\ Len(tunnels) + 1 \in Ids
         /\ tunnelCtxs' \in [Keys -> Ids] /\ leaked' \subseteq 1..MaxTunnels
         /\ StoppedWithLink' /\ TunnelsInStep'
         /\ ServedByNode(k)'
         /\ \A j \in Keys : j # k /\ ServedByNode(j) => ServedByNode(j)'
         /\ \A j \in Keys : j # k /\ LiveTunnels(j) \subseteq leaked
              => LiveTunnels(j)' \subseteq leaked'
  <1> USE NodeNumbers DEF ClientInv, linkVars
  <1> DEFINE n == Len(tunnels) + 1
             new == [key |-> k, link |-> link, live |-> TRUE, pc |-> pc]
  <1>1. /\ Len(tunnels) < MaxTunnels /\ tunnels' = Append(tunnels, new)
        /\ tunnelCtxs' = [tunnelCtxs EXCEPT ![k] = n]
        /\ leaked' = leaked \cup {i \in {tunnelCtxs[k]} \ {0} : tunnels[i].live}
    BY DEF RegisterTunnel
  <1>t. /\ tunnels \in Seq(TunnelRec) /\ Len(tunnels) \in Nat
        /\ DOMAIN tunnels = 1..Len(tunnels) /\ tunnelCtxs \in [Keys -> Ids]
        /\ link \in 0..MaxLinks /\ leaked \subseteq 1..MaxTunnels
        /\ killed \subseteq 1..MaxTunnels
    BY NodeTypes DEF TypeOK
  <1>2. link # 0 /\ link \in 1..MaxLinks
    BY <1>t DEF LinkInStep
  <1>3. new \in TunnelRec
    BY <1>2 DEF TunnelRec
  <1>4. /\ tunnels' \in Seq(TunnelRec) /\ Len(tunnels') = n
        /\ DOMAIN tunnels' = 1..n /\ tunnels'[n] = new
        /\ \A i \in DOMAIN tunnels : i \in DOMAIN tunnels' /\ tunnels'[i] = tunnels[i]
        /\ \A i \in DOMAIN tunnels' : i = n \/ i \in DOMAIN tunnels
    BY <1>1, <1>3, <1>t, AppendFacts
  <1>5. n \in Ids /\ n # 0 /\ Len(tunnels') <= MaxTunnels /\ n \notin DOMAIN tunnels
        /\ \A i \in DOMAIN tunnels' : i <= n
    BY <1>1, <1>4, <1>t DEF Ids
  <1>6. /\ tunnels'[n].key = k /\ tunnels'[n].link = link /\ tunnels'[n].live
        /\ tunnels'[n].pc = pc
    BY <1>4
  <1> HIDE DEF new
  <1>7. /\ tunnelCtxs' \in [Keys -> Ids] /\ tunnelCtxs'[k] = n
        /\ \A j \in Keys : j # k => tunnelCtxs'[j] = tunnelCtxs[j]
    BY <1>1, <1>5, <1>t
  <1>8. leaked \subseteq leaked' /\ leaked' \subseteq 1..MaxTunnels
    <2>1. tunnelCtxs[k] \in Ids
      BY <1>t
    <2>2. {i \in {tunnelCtxs[k]} \ {0} : tunnels[i].live} \subseteq 1..MaxTunnels
      BY <2>1 DEF Ids
    <2> QED
      BY <1>1, <1>t, <2>2
  <1>9. tunnelCtxs[k] # 0 /\ tunnels[tunnelCtxs[k]].live => tunnelCtxs[k] \in leaked'
    BY <1>1
  <1> HIDE DEF n
  <1>10. StoppedWithLink'
    BY <1>4, <1>6 DEF StoppedWithLink
  <1>11. TunnelsInStep'
    <2>1. ASSUME NEW j \in Keys, tunnelCtxs'[j] # 0
          PROVE  /\ tunnelCtxs'[j] \in DOMAIN tunnels'
                 /\ tunnels'[tunnelCtxs'[j]].key = j
                 /\ tunnels'[tunnelCtxs'[j]].link = link'
                 /\ \A l \in DOMAIN tunnels' :
                      tunnels'[l].key = j /\ tunnels'[l].link = link' => l <= tunnelCtxs'[j]
      <3>1. CASE j = k
        <4>1. n \in DOMAIN tunnels'
          BY <1>4, <1>5, <1>t DEF n
        <4> QED
          BY <1>5, <1>6, <1>7, <3>1, <4>1
      <3>2. CASE j # k
        <4>1. tunnelCtxs'[j] = tunnelCtxs[j]
          BY <1>7, <3>2
        <4>2. /\ tunnelCtxs[j] \in DOMAIN tunnels
              /\ tunnels[tunnelCtxs[j]].key = j /\ tunnels[tunnelCtxs[j]].link = link
              /\ \A l \in DOMAIN tunnels :
                   tunnels[l].key = j /\ tunnels[l].link = link => l <= tunnelCtxs[j]
          BY <2>1, <4>1 DEF TunnelsInStep
        <4> QED
          BY <1>4, <1>6, <3>2, <4>1, <4>2
      <3> QED
        BY <3>1, <3>2
    <2>2. ASSUME NEW j \in DOMAIN tunnels'
          PROVE  /\ tunnels'[j].link <= link'
                 /\ tunnels'[j].live => tunnelCtxs'[tunnels'[j].key] = j \/ j \in leaked'
                 /\ tunnels'[j].pc = "exit" /\ tunnels'[j].live
                      => Kind[tunnels'[j].key] = "outbound"
                 /\ Kind[tunnels'[j].key] = "tcp" => tunnels'[j].pc = "ctx"
      <3>1. CASE j = n
        BY <1>2, <1>6, <1>7, <3>1
      <3>2. CASE j # n
        <4>1. j \in DOMAIN tunnels /\ tunnels'[j] = tunnels[j] /\ tunnels[j].key \in Keys
          BY <1>4, <3>2, NodeTypes DEF TunnelRec
        <4>2. /\ tunnels[j].link <= link
              /\ tunnels[j].live => tunnelCtxs[tunnels[j].key] = j \/ j \in leaked
              /\ tunnels[j].pc = "exit" /\ tunnels[j].live
                   => Kind[tunnels[j].key] = "outbound"
              /\ Kind[tunnels[j].key] = "tcp" => tunnels[j].pc = "ctx"
          BY <4>1 DEF TunnelsInStep
        <4>3. tunnels[j].live => tunnelCtxs'[tunnels[j].key] = j \/ j \in leaked'
          <5>1. CASE tunnels[j].key = k
            <6>1. j # 0
              BY <4>1, NodeTypes
            <6> QED
              BY <1>8, <1>9, <4>2, <5>1, <6>1
          <5>2. CASE tunnels[j].key # k
            BY <1>7, <1>8, <4>1, <4>2, <5>2
          <5> QED
            BY <5>1, <5>2
        <4> QED
          BY <4>1, <4>2, <4>3
      <3> QED
        BY <3>1, <3>2
    <2>3. /\ \A j \in killed' : j \in DOMAIN tunnels'
          /\ \A p \in DOMAIN pipes' : pipes'[p].ctx \in DOMAIN tunnels'
      BY <1>4 DEF TunnelsInStep
    <2>4. \A j \in Keys : proxyInfo'[j] # 0 => proxyInfo'[j] \in DOMAIN tunnels'
      <3>1. n \in DOMAIN tunnels'
        BY <1>4, <1>5, <1>t DEF n
      <3> QED
        BY <1>4, <3>1 DEF TunnelsInStep, n
    <2> QED
      BY <2>1, <2>2, <2>3, <2>4 DEF TunnelsInStep
  <1>12. ServedByNode(k)'
    <2>1. n \in LiveTunnels(k)'
      <3>1. n \in DOMAIN tunnels'
        BY <1>4, <1>5, <1>t DEF n
      <3> QED
        BY <1>6, <3>1 DEF LiveTunnels
    <2> QED
      BY <1>5, <1>7, <2>1 DEF ServedByNode
  <1>13. \A j \in Keys : j # k => LiveTunnels(j)' = LiveTunnels(j)
    BY <1>4, <1>6 DEF LiveTunnels
  <1>14. ASSUME NEW j \in Keys, j # k, ServedByNode(j) PROVE ServedByNode(j)'
    <2>1. CASE tunnelCtxs[j] # 0 /\ tunnelCtxs[j] \in LiveTunnels(j)
      BY <1>7, <1>13, <1>14, <2>1 DEF ServedByNode
    <2>2. CASE \E i \in killed :
                 /\ tunnels[i].key = j /\ tunnels[i].link = link
                 /\ \A l \in DOMAIN tunnels :
                      tunnels[l].key = j /\ tunnels[l].link = link => l <= i
      <3>1. PICK i \in killed :
                 /\ tunnels[i].key = j /\ tunnels[i].link = link
                 /\ \A l \in DOMAIN tunnels :
                      tunnels[l].key = j /\ tunnels[l].link = link => l <= i
        BY <2>2
      <3>2. i \in DOMAIN tunnels
        BY DEF TunnelsInStep
      <3>3. /\ i \in killed' /\ tunnels'[i].key = j /\ tunnels'[i].link = link'
            /\ \A l \in DOMAIN tunnels' :
                 tunnels'[l].key = j /\ tunnels'[l].link = link' => l <= i
        BY <1>4, <1>6, <1>14, <3>1, <3>2
      <3> QED
        BY <3>3 DEF ServedByNode
    <2> QED
      BY <1>14, <2>1, <2>2 DEF ServedByNode
  <1>15. \A j \in Keys : j # k /\ LiveTunnels(j) \subseteq leaked
           => LiveTunnels(j)' \subseteq leaked'
    BY <1>8, <1>13
  <1>16. Len(tunnels) + 1 \in Ids
    BY <1>5 DEF n
  <1> QED
    BY <1>4, <1>5, <1>7, <1>8, <1>10, <1>11, <1>12, <1>14, <1>15, <1>16

(* A message that makes the node serve a key.                              *)
LEMMA HandleRegisterSafe ==
  ASSUME ClientInv, NEW k \in Keys, HandleProxy(k) \/ HandleProxyOutbound(k)
  PROVE  ClientInv'
  <1> USE NodeNumbers
  <1>1. PICK type \in {"proxy", "proxy_outbound"}, pc \in {"ctx", "top", "dial"} :
          /\ Receive(type, k) /\ RegisterTunnel(k, pc)
          /\ type = "proxy" => (Kind[k] = "tcp" => pc = "ctx")
    BY DEF HandleProxy, HandleProxyOutbound
  <1>2. UNCHANGED <<srvVars, linkVars, reader, out, killed, pipes>>
    BY DEF HandleProxy, HandleProxyOutbound
  <1>3. /\ up /\ Head(wire) = Msg(type, k)
        /\ wire' \in Seq(Messages) /\ Len(wire') <= WireCap /\ LinkInStep'
        /\ type = "proxy_outbound" => Kind[k] = "outbound"
    <2>1. type \in MessageTypes
      BY DEF MessageTypes
    <2> QED
      BY <1>1, <1>2, <2>1, ReceiveKeeps
  <1>4. proxyInfo' = proxyInfo \/ proxyInfo' = [proxyInfo EXCEPT ![k] = Len(tunnels) + 1]
    BY DEF HandleProxy, HandleProxyOutbound
  <1>5. \A j \in Keys : proxyInfo'[j] \in {proxyInfo[j], Len(tunnels) + 1}
    BY <1>4 DEF ClientInv, TypeOK
  <1>6. /\ tunnels' \in Seq(TunnelRec) /\ Len(tunnels') <= MaxTunnels
        /\ Len(tunnels) + 1 \in Ids
        /\ tunnelCtxs' \in [Keys -> Ids] /\ leaked' \subseteq 1..MaxTunnels
        /\ StoppedWithLink' /\ TunnelsInStep'
        /\ ServedByNode(k)'
        /\ \A j \in Keys : j # k /\ ServedByNode(j) => ServedByNode(j)'
        /\ \A j \in Keys : j # k /\ LiveTunnels(j) \subseteq leaked
             => LiveTunnels(j)' \subseteq leaked'
    <2>1. Kind[k] = "tcp" => pc = "ctx"
      BY <1>1, <1>3
    <2> QED
      BY <1>1, <1>2, <1>3, <1>5, <2>1, RegisterFacts
  <1>7. TypeOK'
    <2>1. proxyInfo \in [Keys -> Ids]
      BY DEF ClientInv, TypeOK
    <2>2. proxyInfo' \in [Keys -> Ids]
      BY <1>4, <1>6, <2>1
    <2> QED
      BY <1>2, <1>3, <1>6, <2>2 DEF ClientInv, TypeOK, TunnelRec, srvVars, linkVars
  <1>8. ServedOrToBe' /\ ClosedOrToBe'
    <2> DEFINE m == Msg(type, k)
    <2>1. wire # <<>> /\ Head(wire) = m /\ wire' = Tail(wire) /\ UNCHANGED <<srvVars, up>>
      BY <1>1, <1>2, <1>3 DEF Receive, linkVars
    <2>2. srv \subseteq Keys /\ Proxies \subseteq Keys /\ srv \subseteq Proxies
      BY MsgType DEF ClientInv, TypeOK
    <2>3. ASSUME NEW j \in srv
          PROVE  /\ m # Msg("proxy_closed", j) /\ ServedByNode(j) => ServedByNode(j)'
                 /\ m = Msg("proxy", j) => ServedByNode(j)'
      BY <1>6, <2>2, MsgEq
    <2>4. ASSUME NEW j \in Proxies
          PROVE  /\ m # Msg("proxy", j) /\ LiveTunnels(j) \subseteq leaked
                      => LiveTunnels(j)' \subseteq leaked'
                 /\ m = Msg("proxy_closed", j) => LiveTunnels(j)' \subseteq leaked'
      <3>1. j = k => m = Msg("proxy", j)
        <4>1. j = k => Kind[k] # "outbound"
          BY DEF Proxies
        <4> QED
          BY <1>3, <4>1
      <3>2. m # Msg("proxy_closed", j)
        BY MsgEq
      <3> QED
        BY <1>6, <2>2, <3>1, <3>2
    <2> HIDE DEF m
    <2> QED
      BY <2>1, <2>3, <2>4, ReceiveParts
  <1> QED
    BY <1>3, <1>6, <1>7, <1>8 DEF ClientInv

(* Contexts cancelled in place: what was in step is, where the table gives *)
(* up what is cancelled.                                                   *)
LEMMA CancelKeeps ==
  ASSUME ClientInv, NEW S, tunnels' = Cancelled(S),
         UNCHANGED <<link, leaked, pipes>>, killed' \subseteq DOMAIN tunnels,
         \A j \in Keys : tunnelCtxs'[j] \in {0, tunnelCtxs[j]},
         \A j \in Keys : tunnelCtxs'[j] # tunnelCtxs[j] => tunnelCtxs[j] \in S,
         \A j \in Keys : proxyInfo'[j] \in {0, proxyInfo[j]},
         up' = up \/ (~up' /\ OfHandler \subseteq S)
  PROVE  /\ StoppedWithLink' /\ TunnelsInStep'
         /\ tunnels' \in Seq(TunnelRec) /\ Len(tunnels') = Len(tunnels)
         /\ \A j \in Keys : LiveTunnels(j)' \subseteq LiveTunnels(j)
  <1> USE DEF ClientInv
  <1>1. /\ tunnels' \in Seq(TunnelRec) /\ Len(tunnels') = Len(tunnels)
        /\ DOMAIN tunnels' = DOMAIN tunnels
        /\ \A i \in DOMAIN tunnels :
             /\ tunnels'[i] \in TunnelRec /\ tunnels'[i].key = tunnels[i].key
             /\ tunnels'[i].link = tunnels[i].link /\ tunnels'[i].pc = tunnels[i].pc
             /\ tunnels'[i].live => tunnels[i].live /\ i \notin S
    BY CancelFacts
  <1>2. StoppedWithLink'
    <2>1. CASE up' = up
      BY <1>1, <2>1 DEF StoppedWithLink
    <2>2. CASE ~up' /\ OfHandler \subseteq S
      BY <1>1, <2>2 DEF StoppedWithLink, OfHandler
    <2> QED
      BY <2>1, <2>2
  <1>3. TunnelsInStep'
    <2>1. ASSUME NEW j \in Keys, tunnelCtxs'[j] # 0
          PROVE  /\ tunnelCtxs'[j] \in DOMAIN tunnels'
                 /\ tunnels'[tunnelCtxs'[j]].key = j
                 /\ tunnels'[tunnelCtxs'[j]].link = link'
                 /\ \A l \in DOMAIN tunnels' :
                      tunnels'[l].key = j /\ tunnels'[l].link = link' => l <= tunnelCtxs'[j]
      <3>1. tunnelCtxs'[j] = tunnelCtxs[j]
        BY <2>1
      <3>2. /\ tunnelCtxs[j] \in DOMAIN tunnels
            /\ tunnels[tunnelCtxs[j]].key = j /\ tunnels[tunnelCtxs[j]].link = link
            /\ \A l \in DOMAIN tunnels :
                 tunnels[l].key = j /\ tunnels[l].link = link => l <= tunnelCtxs[j]
        BY <2>1, <3>1 DEF TunnelsInStep
      <3> QED
        BY <1>1, <3>1, <3>2
    <2>2. ASSUME NEW j \in DOMAIN tunnels'
          PROVE  /\ tunnels'[j].link <= link'
                 /\ tunnels'[j].live => tunnelCtxs'[tunnels'[j].key] = j \/ j \in leaked'
                 /\ tunnels'[j].pc = "exit" /\ tunnels'[j].live
                      => Kind[tunnels'[j].key] = "outbound"
                 /\ Kind[tunnels'[j].key] = "tcp" => tunnels'[j].pc = "ctx"
      <3>1. j \in DOMAIN tunnels /\ tunnels[j].key \in Keys
        BY <1>1, NodeTypes DEF TunnelRec
      <3> QED
        BY <1>1, <3>1 DEF TunnelsInStep
    <2>3. /\ \A j \in killed' : j \in DOMAIN tunnels'
          /\ \A p \in DOMAIN pipes' : pipes'[p].ctx \in DOMAIN tunnels'
          /\ \A j \in Keys : proxyInfo'[j] # 0 => proxyInfo'[j] \in DOMAIN tunnels'
      BY <1>1 DEF TunnelsInStep
    <2> QED
      BY <2>1, <2>2, <2>3 DEF TunnelsInStep
  <1>4. \A j \in Keys : LiveTunnels(j)' \subseteq LiveTunnels(j)
    BY <1>1 DEF LiveTunnels
  <1> QED
    BY <1>1, <1>2, <1>3, <1>4

(* A key whose entry is left alone is served as before.                    *)
LEMMA ServedKept ==
  ASSUME ClientInv, NEW j \in Keys, ServedByNode(j),
         DOMAIN tunnels' = DOMAIN tunnels, link' = link, killed \subseteq killed',
         \A i \in DOMAIN tunnels : /\ tunnels'[i].key = tunnels[i].key
                                   /\ tunnels'[i].link = tunnels[i].link,
         tunnelCtxs'[j] = tunnelCtxs[j],
         tunnelCtxs[j] # 0 => tunnels'[tunnelCtxs[j]].live = tunnels[tunnelCtxs[j]].live
  PROVE  ServedByNode(j)'
  <1> USE DEF ClientInv
  <1>1. CASE tunnelCtxs[j] # 0 /\ tunnelCtxs[j] \in LiveTunnels(j)
    BY <1>1 DEF ServedByNode, LiveTunnels
  <1>2. CASE \E i \in killed :
               /\ tunnels[i].key = j /\ tunnels[i].link = link
               /\ \A l \in DOMAIN tunnels :
                    tunnels[l].key = j /\ tunnels[l].link = link => l <= i
    <2>1. PICK i \in killed :
               /\ tunnels[i].key = j /\ tunnels[i].link = link
               /\ \A l \in DOMAIN tunnels :
                    tunnels[l].key = j /\ tunnels[l].link = link => l <= i
      BY <1>2
    <2>2. i \in DOMAIN tunnels
      BY DEF TunnelsInStep
    <2>3. /\ i \in killed' /\ tunnels'[i].key = j /\ tunnels'[i].link = link'
          /\ \A l \in DOMAIN tunnels' :
               tunnels'[l].key = j /\ tunnels'[l].link = link' => l <= i
      BY <2>1, <2>2
    <2> QED
      BY <2>3 DEF ServedByNode
  <1> QED
    BY <1>1, <1>2 DEF ServedByNode

(* proxy_closed: the context in the table is cancelled, so what is live of *)
(* the key was overwritten.                                                *)
LEMMA HandleProxyClosedSafe ==
  ASSUME ClientInv, NEW k \in Keys, HandleProxyClosed(k)
  PROVE  ClientInv'
  <1> USE NodeNumbers
  <1> DEFINE S == {tunnelCtxs[k]} \ {0}
  <1>1. /\ Receive("proxy_closed", k) /\ tunnels' = Cancelled(S)
        /\ tunnelCtxs' = [tunnelCtxs EXCEPT ![k] = 0]
        /\ proxyInfo' = [proxyInfo EXCEPT ![k] = 0] /\ reader' = "reply"
        /\ UNCHANGED <<srvVars, linkVars, out, leaked, killed, pipes>>
    BY DEF HandleProxyClosed, Stopped
  <1>t. tunnelCtxs \in [Keys -> Ids] /\ proxyInfo \in [Keys -> Ids]
    BY DEF ClientInv, TypeOK
  <1>2. /\ up /\ Head(wire) = Msg("proxy_closed", k)
        /\ wire' \in Seq(Messages) /\ Len(wire') <= WireCap /\ LinkInStep'
    <2>1. "proxy_closed" \in MessageTypes
      BY DEF MessageTypes
    <2> QED
      BY <1>1, <2>1, ReceiveKeeps
  <1>3. /\ tunnelCtxs' \in [Keys -> Ids] /\ proxyInfo' \in [Keys -> Ids]
        /\ tunnelCtxs'[k] = 0 /\ \A j \in Keys : j # k => tunnelCtxs'[j] = tunnelCtxs[j]
        /\ \A j \in Keys : proxyInfo'[j] \in {0, proxyInfo[j]}
    BY <1>1, <1>t
  <1>4. /\ StoppedWithLink' /\ TunnelsInStep'
        /\ tunnels' \in Seq(TunnelRec) /\ Len(tunnels') = Len(tunnels)
        /\ \A j \in Keys : LiveTunnels(j)' \subseteq LiveTunnels(j)
    <2>1. killed' \subseteq DOMAIN tunnels
      BY <1>1 DEF ClientInv, TunnelsInStep
    <2>2. /\ \A j \in Keys : tunnelCtxs'[j] \in {0, tunnelCtxs[j]}
          /\ \A j \in Keys : tunnelCtxs'[j] # tunnelCtxs[j] => tunnelCtxs[j] \in S
      BY <1>3
    <2>3. UNCHANGED <<link, leaked, pipes, up>>
      BY <1>1 DEF linkVars
    <2> HIDE DEF S
    <2> QED
      BY <1>1, <1>3, <2>1, <2>2, <2>3, CancelKeeps
  <1>5. TypeOK'
    BY <1>1, <1>2, <1>3, <1>4 DEF ClientInv, TypeOK, TunnelRec, srvVars, linkVars
  <1>6. LiveTunnels(k)' \subseteq leaked'
    <2> SUFFICES ASSUME NEW i \in LiveTunnels(k)' PROVE i \in leaked'
      OBVIOUS
    <2>1. i \in DOMAIN tunnels' /\ tunnels'[i].key = k /\ tunnels'[i].live
      BY DEF LiveTunnels
    <2>2. i # 0
      BY <1>4, <2>1
    <2> QED
      BY <1>3, <1>4, <2>1, <2>2 DEF TunnelsInStep
  <1>7. ServedOrToBe' /\ ClosedOrToBe'
    <2> DEFINE m == Msg("proxy_closed", k)
    <2>1. wire # <<>> /\ Head(wire) = m /\ wire' = Tail(wire) /\ UNCHANGED <<srvVars, up>>
      BY <1>1, <1>2 DEF Receive, linkVars
    <2>2. srv \subseteq Keys /\ Proxies \subseteq Keys
      BY MsgType DEF ClientInv, TypeOK
    <2>3. ASSUME NEW j \in srv
          PROVE  /\ m # Msg("proxy_closed", j) /\ ServedByNode(j) => ServedByNode(j)'
                 /\ m = Msg("proxy", j) => ServedByNode(j)'
      <3>1. m # Msg("proxy", j)
        BY MsgEq
      <3>2. ASSUME m # Msg("proxy_closed", j), ServedByNode(j) PROVE ServedByNode(j)'
        <4>1. j # k /\ j \in Keys /\ tunnelCtxs'[j] = tunnelCtxs[j]
          BY <1>3, <2>2, <3>2
        <4>2. tunnelCtxs[j] # 0 => tunnelCtxs[j] \in DOMAIN tunnels /\ tunnelCtxs[j] \notin S
          BY <4>1 DEF ClientInv, TunnelsInStep
        <4>3. /\ DOMAIN tunnels' = DOMAIN tunnels
              /\ \A i \in DOMAIN tunnels : /\ tunnels'[i].key = tunnels[i].key
                                           /\ tunnels'[i].link = tunnels[i].link
                                           /\ i \notin S => tunnels'[i] = tunnels[i]
          <5> HIDE DEF S
          <5> QED
            BY <1>1, CancelFacts DEF ClientInv
        <4>4. tunnelCtxs[j] # 0 => tunnels'[tunnelCtxs[j]].live = tunnels[tunnelCtxs[j]].live
          BY <4>2, <4>3
        <4>5. link' = link /\ killed \subseteq killed'
          BY <1>1 DEF linkVars
        <4> QED
          BY <3>2, <4>1, <4>3, <4>4, <4>5, ServedKept
      <3> QED
        BY <3>1, <3>2
    <2>4. ASSUME NEW j \in Proxies
          PROVE  /\ m # Msg("proxy", j) /\ LiveTunnels(j) \subseteq leaked
                      => LiveTunnels(j)' \subseteq leaked'
                 /\ m = Msg("proxy_closed", j) => LiveTunnels(j)' \subseteq leaked'
      BY <1>1, <1>4, <1>6, <2>2, MsgEq
    <2> HIDE DEF m
    <2> QED
      BY <2>1, <2>3, <2>4, ReceiveParts
  <1> QED
    BY <1>2, <1>4, <1>5, <1>7 DEF ClientInv

(* A message that leaves the tunnels alone.                                *)
LEMMA HandleOtherSafe ==
  ASSUME ClientInv, NEW k \in Keys, HandlePing(k) \/ HandleTunnelRequest(k)
  PROVE  ClientInv'
  <1> USE NodeNumbers
  <1>1. PICK type \in {"ping", "tunnel_request"} :
          /\ Receive(type, k)
          /\ \/ pipes' = pipes
             \/ /\ type = "tunnel_request" /\ proxyInfo[k] # 0
                /\ pipes' = Append(pipes, [ctx |-> proxyInfo[k], pc |-> "dial"])
    BY DEF HandlePing, HandleTunnelRequest
  <1>2. UNCHANGED <<srvVars, linkVars, out, nodeVars>> /\ reader' \in {reader, "reply"}
    BY DEF HandlePing, HandleTunnelRequest
  <1>t. /\ pipes \in Seq(PipeRec) /\ Len(pipes) \in Nat /\ DOMAIN pipes = 1..Len(pipes)
        /\ proxyInfo \in [Keys -> Ids] /\ reader \in {"read", "reply"}
    BY NodeTypes DEF ClientInv, TypeOK
  <1>3. /\ pipes' \in Seq(PipeRec)
        /\ pipes' = pipes \/ (type = "tunnel_request" /\ Len(pipes') = Len(pipes) + 1)
        /\ \A p \in DOMAIN pipes' : pipes'[p].ctx \in DOMAIN tunnels
    <2>0. \A p \in DOMAIN pipes : pipes[p].ctx \in DOMAIN tunnels
      BY DEF ClientInv, TunnelsInStep
    <2>1. CASE pipes' = pipes
      BY <1>t, <2>0, <2>1
    <2>2. CASE /\ type = "tunnel_request" /\ proxyInfo[k] # 0
               /\ pipes' = Append(pipes, [ctx |-> proxyInfo[k], pc |-> "dial"])
      <3> DEFINE new == [ctx |-> proxyInfo[k], pc |-> "dial"]
      <3>1. proxyInfo[k] \in 1..MaxTunnels /\ proxyInfo[k] \in DOMAIN tunnels
        BY <1>t, <2>2 DEF Ids, ClientInv, TunnelsInStep
      <3>2. new \in PipeRec /\ new.ctx \in DOMAIN tunnels
        BY <3>1 DEF PipeRec
      <3> HIDE DEF new
      <3>3. /\ pipes' \in Seq(PipeRec) /\ Len(pipes') = Len(pipes) + 1
            /\ pipes'[Len(pipes) + 1] = new
            /\ \A p \in DOMAIN pipes : pipes'[p] = pipes[p]
            /\ \A p \in DOMAIN pipes' : p = Len(pipes) + 1 \/ p \in DOMAIN pipes
        <4>1. pipes' = Append(pipes, new)
          BY <2>2 DEF new
        <4> QED
          BY <1>t, <3>2, <4>1, AppendFacts
      <3> QED
        BY <2>0, <2>2, <3>2, <3>3
    <2> QED
      BY <1>1, <2>1, <2>2
  <1>4. /\ up /\ Head(wire) = Msg(type, k)
        /\ wire' \in Seq(Messages) /\ Len(wire') <= WireCap /\ LinkInStep'
        /\ Len(pipes') <= MaxPipes
    <2>1. type \in MessageTypes
      BY DEF MessageTypes
    <2> QED
      BY <1>1, <1>2, <1>3, <2>1, ReceiveKeeps
  <1>5. TypeOK'
    <2>1. reader' \in {"read", "reply"}
      BY <1>2, <1>t
    <2> QED
      BY <1>2, <1>3, <1>4, <2>1
         DEF ClientInv, TypeOK, PipeRec, srvVars, linkVars, nodeVars
  <1>6. /\ StoppedWithLink' /\ TunnelsInStep'
        /\ \A j : ServedByNode(j)' <=> ServedByNode(j)
        /\ \A j : LiveTunnels(j)' = LiveTunnels(j)
    BY <1>2, <1>3, TunnelsSame DEF ClientInv, nodeVars, linkVars
  <1>7. ServedOrToBe' /\ ClosedOrToBe'
    <2> DEFINE m == Msg(type, k)
    <2>1. wire # <<>> /\ Head(wire) = m /\ wire' = Tail(wire) /\ UNCHANGED <<srvVars, up>>
      BY <1>1, <1>2, <1>4 DEF Receive, linkVars
    <2>2. \A j : m # Msg("proxy", j) /\ m # Msg("proxy_closed", j)
      BY MsgEq
    <2>3. leaked' = leaked
      BY <1>2 DEF nodeVars
    <2> HIDE DEF m
    <2> QED
      BY <1>6, <2>1, <2>2, <2>3, ReceiveParts
  <1> QED
    BY <1>4, <1>5, <1>6, <1>7 DEF ClientInv

(* The deferred stopTunnel of a goroutine.  It takes the newest context of *)
(* the key out of the table, whose ever it is: that context is cancelled,  *)
(* and in killed when it is another's.                                     *)
LEMMA TunnelEndsSafe ==
  ASSUME ClientInv, NEW i \in 1..MaxTunnels, TunnelEnds(i)
  PROVE  ClientInv'
  <1> USE NodeNumbers DEF linkVars
  <1> DEFINE k == tunnels[i].key
             hit == IF up /\ tunnels[i].link = link THEN tunnelCtxs[k] ELSE 0
             S == {hit} \ {0}
             left == Cancelled(S)
  <1>1. /\ i \in DOMAIN tunnels /\ tunnels[i].pc = "exit"
        /\ tunnels' = [left EXCEPT ![i].pc = "ended"]
        /\ tunnelCtxs' = IF hit = 0 THEN tunnelCtxs ELSE [tunnelCtxs EXCEPT ![k] = 0]
        /\ killed' = killed \cup ({hit} \ {0, i})
        /\ UNCHANGED <<srvVars, linkVars, wire, reader, out, proxyInfo, leaked, pipes>>
    BY DEF TunnelEnds
  <1>t. /\ tunnelCtxs \in [Keys -> Ids] /\ killed \subseteq 1..MaxTunnels
        /\ tunnels[i] \in TunnelRec /\ k \in Keys
    BY <1>1, NodeTypes DEF ClientInv, TypeOK, TunnelRec
  <1>2. /\ hit # 0 => hit = tunnelCtxs[k]
        /\ hit # 0 => hit \in DOMAIN tunnels /\ tunnels[hit].key = k
                      /\ tunnels[hit].link = link
        /\ hit # 0 => \A j \in DOMAIN tunnels :
                         tunnels[j].key = k /\ tunnels[j].link = link => j <= hit
        /\ hit \in Ids
    BY <1>t DEF ClientInv, TunnelsInStep
  <1>3. \A j \in Keys : j # k /\ tunnelCtxs[j] # 0 => tunnelCtxs[j] # hit
    BY <1>2 DEF ClientInv, TunnelsInStep
  <1>4. /\ left \in Seq(TunnelRec) /\ Len(left) = Len(tunnels)
        /\ DOMAIN left = DOMAIN tunnels
        /\ \A j \in DOMAIN tunnels :
             /\ left[j] \in TunnelRec /\ left[j].key = tunnels[j].key
             /\ left[j].link = tunnels[j].link /\ left[j].pc = tunnels[j].pc
             /\ left[j].live => tunnels[j].live /\ j \notin S
             /\ j \notin S => left[j] = tunnels[j]
    BY CancelFacts DEF ClientInv
  <1> HIDE DEF left, S, hit, k
  <1>5. /\ DOMAIN tunnels' = DOMAIN tunnels
        /\ tunnels' = [j \in DOMAIN tunnels |-> tunnels'[j]]
        /\ tunnels'[i] = [left[i] EXCEPT !.pc = "ended"]
        /\ \A j \in DOMAIN tunnels : j # i => tunnels'[j] = left[j]
    BY <1>1, <1>4
  <1>6. \A j \in DOMAIN tunnels :
          /\ tunnels'[j] \in TunnelRec /\ tunnels'[j].key = tunnels[j].key
          /\ tunnels'[j].link = tunnels[j].link
          /\ tunnels'[j].live = left[j].live
          /\ tunnels'[j].pc = IF j = i THEN "ended" ELSE tunnels[j].pc
    <2>1. /\ tunnels'[i] \in TunnelRec /\ tunnels'[i].key = tunnels[i].key
          /\ tunnels'[i].link = tunnels[i].link
          /\ tunnels'[i].live = left[i].live /\ tunnels'[i].pc = "ended"
      BY <1>1, <1>4, <1>5, ZenonT(60) DEF TunnelRec
    <2> QED
      BY <1>4, <1>5, <2>1
  <1>7. tunnels' \in Seq(TunnelRec) /\ Len(tunnels') = Len(tunnels)
    BY <1>5, <1>6, TunnelsInPlace DEF ClientInv
  <1>8. /\ tunnelCtxs' \in [Keys -> Ids]
        /\ \A j \in Keys : j # k => tunnelCtxs'[j] = tunnelCtxs[j]
        /\ tunnelCtxs'[k] = IF hit = 0 THEN tunnelCtxs[k] ELSE 0
    BY <1>1, <1>t
  <1>9. \A j \in DOMAIN tunnels : tunnels'[j].live => tunnels[j].live /\ (hit # 0 => j # hit)
    BY <1>4, <1>6 DEF S
  <1>10. TypeOK'
    <2>1. killed' \subseteq 1..MaxTunnels
      BY <1>1, <1>2, <1>t DEF Ids
    <2> QED
      BY <1>1, <1>7, <1>8, <2>1 DEF ClientInv, TypeOK, TunnelRec, srvVars
  <1>11. StoppedWithLink'
    BY <1>1, <1>5, <1>6, <1>9 DEF ClientInv, StoppedWithLink
  <1>12. TunnelsInStep'
    <2>1. ASSUME NEW j \in Keys, tunnelCtxs'[j] # 0
          PROVE  /\ tunnelCtxs'[j] \in DOMAIN tunnels'
                 /\ tunnels'[tunnelCtxs'[j]].key = j
                 /\ tunnels'[tunnelCtxs'[j]].link = link'
                 /\ \A l \in DOMAIN tunnels' :
                      tunnels'[l].key = j /\ tunnels'[l].link = link' => l <= tunnelCtxs'[j]
      <3>1. tunnelCtxs'[j] = tunnelCtxs[j]
        BY <1>8, <2>1
      <3>2. /\ tunnelCtxs[j] \in DOMAIN tunnels
            /\ tunnels[tunnelCtxs[j]].key = j /\ tunnels[tunnelCtxs[j]].link = link
            /\ \A l \in DOMAIN tunnels :
                 tunnels[l].key = j /\ tunnels[l].link = link => l <= tunnelCtxs[j]
        BY <2>1, <3>1 DEF ClientInv, TunnelsInStep
      <3> QED
        BY <1>1, <1>5, <1>6, <3>1, <3>2
    <2>2. ASSUME NEW j \in DOMAIN tunnels'
          PROVE  /\ tunnels'[j].link <= link'
                 /\ tunnels'[j].live => tunnelCtxs'[tunnels'[j].key] = j \/ j \in leaked'
                 /\ tunnels'[j].pc = "exit" /\ tunnels'[j].live
                      => Kind[tunnels'[j].key] = "outbound"
                 /\ Kind[tunnels'[j].key] = "tcp" => tunnels'[j].pc = "ctx"
      <3>1. j \in DOMAIN tunnels /\ tunnels[j].key \in Keys
        BY <1>5, NodeTypes DEF TunnelRec, ClientInv
      <3>2. /\ tunnels[j].link <= link
            /\ tunnels[j].live => tunnelCtxs[tunnels[j].key] = j \/ j \in leaked
            /\ tunnels[j].pc = "exit" /\ tunnels[j].live
                 => Kind[tunnels[j].key] = "outbound"
            /\ Kind[tunnels[j].key] = "tcp" => tunnels[j].pc = "ctx"
        BY <3>1 DEF ClientInv, TunnelsInStep
      <3>3. tunnels'[j].live => tunnelCtxs'[tunnels[j].key] = j \/ j \in leaked
        <4>1. CASE tunnels[j].key = k
          BY <1>2, <1>8, <1>9, <3>1, <3>2, <4>1
        <4>2. CASE tunnels[j].key # k
          BY <1>8, <1>9, <3>1, <3>2, <4>2
        <4> QED
          BY <4>1, <4>2
      <3>4. Kind[tunnels[j].key] = "tcp" => j # i
        BY <1>1, <3>2
      <3>5. leaked' = leaked /\ link' = link
        BY <1>1
      <3>6. /\ tunnels'[j].key = tunnels[j].key /\ tunnels'[j].link = tunnels[j].link
            /\ tunnels'[j].pc = IF j = i THEN "ended" ELSE tunnels[j].pc
            /\ tunnels'[j].live => tunnels[j].live
        BY <1>6, <1>9, <3>1
      <3> QED
        BY <3>2, <3>3, <3>4, <3>5, <3>6
    <2>3. /\ \A j \in killed' : j \in DOMAIN tunnels'
          /\ \A p \in DOMAIN pipes' : pipes'[p].ctx \in DOMAIN tunnels'
          /\ \A j \in Keys : proxyInfo'[j] # 0 => proxyInfo'[j] \in DOMAIN tunnels'
      BY <1>1, <1>2, <1>5 DEF ClientInv, TunnelsInStep
    <2> QED
      BY <2>1, <2>2, <2>3 DEF TunnelsInStep
  <1>13. LinkInStep'
    BY <1>1, LinkSame DEF ClientInv, srvVars
  <1>14. ServedOrToBe' /\ ClosedOrToBe'
    <2>1. \A j \in Keys : LiveTunnels(j)' \subseteq LiveTunnels(j)
      BY <1>5, <1>6, <1>9 DEF LiveTunnels
    <2>2. srv \subseteq Proxies /\ Proxies \subseteq Keys
      BY MsgType DEF ClientInv, TypeOK
    <2>3. ASSUME NEW j \in srv, ServedByNode(j) PROVE ServedByNode(j)'
      <3>k. /\ killed \subseteq killed' /\ link' = link
            /\ \A l \in DOMAIN tunnels : /\ tunnels'[l].key = tunnels[l].key
                                         /\ tunnels'[l].link = tunnels[l].link
        BY <1>1, <1>6
      <3>1. CASE j # k \/ hit = 0
        <4>1. tunnelCtxs'[j] = tunnelCtxs[j] /\ j \in Keys
          BY <1>8, <2>2, <3>1
        <4>2. tunnelCtxs[j] # 0 => tunnelCtxs[j] \in DOMAIN tunnels /\ tunnelCtxs[j] \notin S
          BY <1>3, <3>1, <4>1 DEF ClientInv, TunnelsInStep, S
        <4>3. tunnelCtxs[j] # 0 => tunnels'[tunnelCtxs[j]].live = tunnels[tunnelCtxs[j]].live
          BY <1>4, <1>6, <4>2
        <4> QED
          BY <1>5, <2>3, <3>k, <4>1, <4>3, ServedKept
      <3>2. CASE j = k /\ hit # 0
        <4>1. CASE hit = i /\ tunnels[i].live
          <5>1. Kind[k] = "outbound"
            BY <1>1, <4>1 DEF k, ClientInv, TunnelsInStep
          <5> QED
            BY <2>2, <3>2, <5>1 DEF Proxies
        <4>2. CASE hit # i
          <5>1. hit \in killed' /\ hit \in DOMAIN tunnels
            BY <1>1, <1>2, <3>2, <4>2
          <5>2. /\ tunnels'[hit].key = j /\ tunnels'[hit].link = link'
                /\ \A l \in DOMAIN tunnels' :
                     tunnels'[l].key = j /\ tunnels'[l].link = link' => l <= hit
            BY <1>2, <1>5, <3>2, <3>k, <5>1
          <5>3. PICK h : h = hit
            OBVIOUS
          <5>4. /\ h \in killed' /\ tunnels'[h].key = j /\ tunnels'[h].link = link'
                /\ \A l \in DOMAIN tunnels' :
                     tunnels'[l].key = j /\ tunnels'[l].link = link' => l <= h
            BY <5>1, <5>2, <5>3
          <5> QED
            BY <5>4 DEF ServedByNode
        <4>3. CASE hit = i /\ ~tunnels[i].live
          <5>1. tunnelCtxs[j] \notin LiveTunnels(j)
            BY <1>2, <3>2, <4>3 DEF LiveTunnels
          <5>2. PICK l \in killed :
                   /\ tunnels[l].key = j /\ tunnels[l].link = link
                   /\ \A n \in DOMAIN tunnels :
                        tunnels[n].key = j /\ tunnels[n].link = link => n <= l
            BY <2>3, <5>1 DEF ServedByNode
          <5>3. l \in DOMAIN tunnels
            BY DEF ClientInv, TunnelsInStep
          <5>4. /\ l \in killed' /\ tunnels'[l].key = j /\ tunnels'[l].link = link'
                /\ \A n \in DOMAIN tunnels' :
                     tunnels'[n].key = j /\ tunnels'[n].link = link' => n <= l
            BY <1>5, <3>k, <5>2, <5>3
          <5> QED
            BY <5>4 DEF ServedByNode
        <4> QED
          BY <4>1, <4>2, <4>3
      <3> QED
        BY <3>1, <3>2
    <2>4. \A j \in Proxies :
            LiveTunnels(j) \subseteq leaked => LiveTunnels(j)' \subseteq leaked'
      BY <1>1, <2>1, <2>2
    <2> QED
      BY <1>1, <2>3, <2>4, WirePartSame DEF ClientInv
  <1> QED
    BY <1>10, <1>11, <1>12, <1>13, <1>14 DEF ClientInv

(* A new connection: no context is live, and the sync will list the store. *)
LEMMA ConnectSafe ==
  ASSUME ClientInv, Connect
  PROVE  ClientInv'
  <1> USE NodeNumbers
  <1>1. /\ ~up /\ link < MaxLinks /\ link' = link + 1 /\ up' = TRUE
        /\ listing' = "list" /\ reader' = "read" /\ out' = 0
        /\ tunnelCtxs' = [k \in Keys |-> 0] /\ proxyInfo' = [k \in Keys |-> 0]
        /\ UNCHANGED <<srv, event, todo, changes, raced, wire, tunnels, leaked,
                       killed, pipes>>
    BY DEF Connect
  <1>t. link \in 0..MaxLinks
    BY DEF ClientInv, TypeOK
  <1>2. link' \in 0..MaxLinks /\ link' # 0 /\ link <= link'
    BY <1>1, <1>t
  <1>3. wire = <<>> /\ todo = {}
    BY <1>1 DEF ClientInv, LinkInStep
  <1>4. \A i \in DOMAIN tunnels : ~tunnels[i].live
    BY <1>1 DEF ClientInv, StoppedWithLink
  <1>5. TypeOK'
    <2>1. /\ tunnelCtxs' \in [Keys -> Ids] /\ proxyInfo' \in [Keys -> Ids]
          /\ out' \in 0..OutCap
      BY <1>1
    <2> QED
      BY <1>1, <1>2, <2>1 DEF ClientInv, TypeOK
  <1>6. StoppedWithLink'
    BY <1>1, <1>4 DEF StoppedWithLink
  <1>7. TunnelsInStep'
    <2>1. \A k \in Keys : tunnelCtxs'[k] = 0 /\ proxyInfo'[k] = 0
      BY <1>1
    <2>2. ASSUME NEW j \in DOMAIN tunnels PROVE tunnels[j].link <= link'
      <3>1. tunnels[j].link <= link /\ tunnels[j].link \in Nat
        BY NodeTypes DEF ClientInv, TunnelsInStep, TunnelRec
      <3> QED
        BY <1>1, <1>t, <3>1
    <2>3. /\ \A j \in killed' : j \in DOMAIN tunnels'
          /\ \A p \in DOMAIN pipes' : pipes'[p].ctx \in DOMAIN tunnels'
          /\ \A j \in DOMAIN tunnels' : Kind[tunnels'[j].key] = "tcp" => tunnels'[j].pc = "ctx"
      BY <1>1 DEF ClientInv, TunnelsInStep
    <2> QED
      BY <1>1, <1>4, <2>1, <2>2, <2>3 DEF TunnelsInStep
  <1>8. LinkInStep'
    BY <1>1, <1>2, <1>3 DEF ClientInv, LinkInStep, Requested
  <1>9. ServedOrToBe' /\ ClosedOrToBe'
    <2>1. \A n : Absent(n)'
      BY <1>1, <1>3 DEF Absent
    <2>2. \A k : LiveTunnels(k)' = {}
      BY <1>1, <1>4 DEF LiveTunnels
    <2>3. ServedOrToBe'
      BY <1>1 DEF ServedOrToBe
    <2>4. ClosedOrToBe'
      BY <2>1, <2>2 DEF ClosedOrToBe
    <2> QED
      BY <2>3, <2>4
  <1> QED
    BY <1>5, <1>6, <1>7, <1>8, <1>9 DEF ClientInv

(* A lost connection: Handler.Stop cancels every context of the Handler.   *)
LEMMA DisconnectSafe ==
  ASSUME ClientInv, Disconnect
  PROVE  ClientInv'
  <1> USE NodeNumbers
  <1>1. /\ up /\ up' = FALSE /\ wire' = <<>> /\ listing' = "none" /\ todo' = {}
        /\ raced' = {} /\ tunnels' = Cancelled(OfHandler)
        /\ reader' = "read" /\ out' = 0
        /\ UNCHANGED <<srv, event, changes, link, tunnelCtxs, proxyInfo, leaked,
                       killed, pipes>>
    BY DEF Disconnect
  <1>2. /\ StoppedWithLink' /\ TunnelsInStep'
        /\ tunnels' \in Seq(TunnelRec) /\ Len(tunnels') = Len(tunnels)
    <2>1. killed' \subseteq DOMAIN tunnels
      BY <1>1 DEF ClientInv, TunnelsInStep
    <2> QED
      BY <1>1, <2>1, CancelKeeps
  <1>3. TypeOK'
    <2>1. wire' \in Seq(Messages) /\ Len(wire') <= WireCap /\ out' \in 0..OutCap
      BY <1>1
    <2> QED
      BY <1>1, <1>2, <2>1 DEF ClientInv, TypeOK, TunnelRec
  <1>4. LinkInStep'
    <2>1. Requested' = {} /\ DOMAIN wire' = {}
      BY <1>1 DEF Requested
    <2>2. Cardinality(Requested') = 0
      BY <2>1, FS_EmptySet
    <2>3. Len(pipes') <= MaxPipes /\ Len(pipes') \in Nat
      BY <1>1, NodeTypes DEF ClientInv, TypeOK
    <2> QED
      BY <1>1, <2>1, <2>2, <2>3 DEF LinkInStep
  <1>5. ServedOrToBe' /\ ClosedOrToBe'
    BY <1>1 DEF ServedOrToBe, ClosedOrToBe
  <1> QED
    BY <1>2, <1>3, <1>4, <1>5 DEF ClientInv

(* The pumps' channel and the goroutines of connectAndPipe.                *)
LEMMA PumpAndPipeSafe ==
  ASSUME ClientInv, UNCHANGED <<srvVars, linkVars, wire, nodeVars>>,
         reader' \in {"read", "reply"}, out' \in 0..OutCap,
         pipes' = pipes \/ \E p \in DOMAIN pipes : \E to \in {"pipe", "done"} :
                              pipes' = [pipes EXCEPT ![p].pc = to]
  PROVE  ClientInv'
  <1> USE NodeNumbers
  <1>t. /\ pipes \in Seq(PipeRec) /\ Len(pipes) \in Nat /\ DOMAIN pipes = 1..Len(pipes)
        /\ Len(pipes) <= MaxPipes /\ \A q \in DOMAIN pipes : pipes[q] \in PipeRec
    BY NodeTypes DEF ClientInv, TypeOK
  <1>1. /\ pipes' \in Seq(PipeRec) /\ Len(pipes') = Len(pipes)
        /\ DOMAIN pipes' = DOMAIN pipes
        /\ \A p \in DOMAIN pipes : pipes'[p].ctx = pipes[p].ctx
    <2>1. CASE pipes' = pipes
      BY <1>t, <2>1
    <2>2. CASE \E p \in DOMAIN pipes : \E to \in {"pipe", "done"} :
                 pipes' = [pipes EXCEPT ![p].pc = to]
      <3>1. PICK p \in DOMAIN pipes, to \in {"pipe", "done"} :
              pipes' = [pipes EXCEPT ![p].pc = to]
        BY <2>2
      <3>2. pipes[p] \in PipeRec
        BY <1>t
      <3>3. /\ DOMAIN pipes' = DOMAIN pipes /\ pipes' = [q \in DOMAIN pipes |-> pipes'[q]]
            /\ pipes'[p] = [pipes[p] EXCEPT !.pc = to]
            /\ \A q \in DOMAIN pipes : q # p => pipes'[q] = pipes[q]
        BY <3>1
      <3>4. pipes'[p] \in PipeRec /\ pipes'[p].ctx = pipes[p].ctx
        BY <3>2, <3>3 DEF PipeRec
      <3>5. \A q \in DOMAIN pipes : pipes'[q] \in PipeRec /\ pipes'[q].ctx = pipes[q].ctx
        BY <1>t, <3>3, <3>4
      <3>6. pipes' \in [1..Len(pipes) -> PipeRec]
        BY <1>t, <3>3, <3>5
      <3>7. pipes' \in Seq(PipeRec) /\ Len(pipes') = Len(pipes)
        BY <1>t, <3>6, SMTT(30)
      <3> QED
        BY <3>3, <3>5, <3>7
    <2> QED
      BY <2>1, <2>2
  <1>2. TypeOK'
    BY <1>1, <1>t DEF ClientInv, TypeOK, PipeRec, srvVars, linkVars, nodeVars
  <1>3. /\ StoppedWithLink' /\ TunnelsInStep'
        /\ \A k : ServedByNode(k)' <=> ServedByNode(k)
        /\ \A k : LiveTunnels(k)' = LiveTunnels(k)
    <2>1. \A p \in DOMAIN pipes' : pipes'[p].ctx \in DOMAIN tunnels
      BY <1>1 DEF ClientInv, TunnelsInStep
    <2> QED
      BY <2>1, TunnelsSame DEF ClientInv, linkVars, nodeVars
  <1>4. LinkInStep'
    BY <1>1 DEF ClientInv, LinkInStep, Requested, srvVars, linkVars
  <1>5. ServedOrToBe' /\ ClosedOrToBe'
    BY <1>3, WirePartSame DEF ClientInv, linkVars, nodeVars
  <1> QED
    BY <1>2, <1>3, <1>4, <1>5 DEF ClientInv

\* The initial states satisfy the client's invariant.
LEMMA ClientInvInit == Init => ClientInv
  <1> SUFFICES ASSUME Init PROVE ClientInv
    OBVIOUS
  <1> USE NodeNumbers DEF Init
  <1>1. TypeOK
    <2>1. up \in BOOLEAN
      OBVIOUS
    <2>2. /\ wire \in Seq(Messages) /\ Len(wire) <= WireCap
          /\ tunnels \in Seq(TunnelRec) /\ Len(tunnels) <= MaxTunnels
          /\ pipes \in Seq(PipeRec) /\ Len(pipes) <= MaxPipes
      OBVIOUS
    <2>3. /\ srv \subseteq Proxies /\ todo \subseteq Proxies /\ raced \subseteq Proxies
          /\ event \in Proxies \cup {None} /\ listing \in {"none", "list", "send"}
          /\ changes \in 0..MaxChanges /\ link \in 0..MaxLinks
          /\ reader \in {"read", "reply"} /\ out \in 0..OutCap
          /\ tunnelCtxs \in [Keys -> Ids] /\ proxyInfo \in [Keys -> Ids]
          /\ leaked \subseteq 1..MaxTunnels /\ killed \subseteq 1..MaxTunnels
      OBVIOUS
    <2> QED
      BY <2>1, <2>2, <2>3, Zenon DEF TypeOK, TunnelRec, PipeRec
  <1>2. StoppedWithLink /\ TunnelsInStep
    BY DEF StoppedWithLink, TunnelsInStep
  <1>3. LinkInStep
    <2>1. Requested = {} /\ Len(pipes) = 0
      BY DEF Requested
    <2> QED
      BY <2>1, FS_EmptySet DEF LinkInStep
  <1>4. ServedOrToBe /\ ClosedOrToBe
    BY DEF ServedOrToBe, ClosedOrToBe
  <1> QED
    BY <1>1, <1>2, <1>3, <1>4 DEF ClientInv

\* Every step keeps the client's invariant.
LEMMA ClientInvNext == ClientInv /\ [Next]_vars => ClientInv'
  <1> SUFFICES ASSUME ClientInv, [Next]_vars PROVE ClientInv'
    OBVIOUS
  <1>t. reader \in {"read", "reply"} /\ out \in 0..OutCap
    BY DEF ClientInv, TypeOK
  <1>1. CASE \E k \in Keys : AddProxy(k) \/ DeleteProxy(k)
    BY <1>1, ChangeSafe
  <1>2. CASE \E k \in Keys : SyncSend(k)
    BY <1>2, SyncSendSafe
  <1>3. CASE \E k \in Keys : TunnelRequest(k) \/ \E type \in {"proxy_outbound", "ping"} :
                                                   OtherMessage(type, k)
    BY <1>3, OtherSendSafe
  <1>4. CASE NotifyProxyClient \/ HandleProxyDeleted
    BY <1>4, NotifySafe
  <1>5. CASE SyncList
    BY <1>5, SyncListSafe
  <1>6. CASE Connect
    BY <1>6, ConnectSafe
  <1>7. CASE Disconnect
    BY <1>7, DisconnectSafe
  <1>8. CASE WriteJSON \/ WritePump
    <2>1. out' \in 0..OutCap
      <3>1. (out < OutCap /\ out' = out + 1) \/ (out > 0 /\ out' = out - 1)
        BY <1>8 DEF WriteJSON, WritePump
      <3> QED
        BY <1>t, <3>1, NodeNumbers
    <2>2. /\ UNCHANGED <<srvVars, linkVars, wire, nodeVars, pipes>>
          /\ reader' \in {"read", "reply"}
      BY <1>8, <1>t DEF WriteJSON, WritePump
    <2> QED
      BY <2>1, <2>2, PumpAndPipeSafe
  <1>9. CASE \E k \in Keys : HandleProxy(k) \/ HandleProxyOutbound(k)
    BY <1>9, HandleRegisterSafe
  <1>10. CASE \E k \in Keys : HandleProxyClosed(k)
    BY <1>10, HandleProxyClosedSafe
  <1>11. CASE \E k \in Keys : HandlePing(k) \/ HandleTunnelRequest(k)
    BY <1>11, HandleOtherSafe
  <1>12. CASE \E i \in 1..MaxTunnels : LoopTop(i) \/ Dialled(i) \/ DialFails(i)
                                       \/ OutboundCancelled(i) \/ ConnectionEnds(i)
    <2> PICK i \in 1..MaxTunnels : LoopTop(i) \/ Dialled(i) \/ DialFails(i)
                                   \/ OutboundCancelled(i) \/ ConnectionEnds(i)
      BY <1>12
    <2>1. i \in DOMAIN tunnels
      BY DEF LoopTop, Dialled, DialFails, OutboundCancelled, ConnectionEnds, At
    <2>2. tunnels[i].pc \in {"top", "dial", "serve"}
      BY DEF LoopTop, Dialled, DialFails, OutboundCancelled, ConnectionEnds, At
    <2>3. Kind[tunnels[i].key] \in {"loop", "outbound"}
      <3>1. tunnels[i].key \in Keys
        BY <2>1, NodeTypes DEF ClientInv, TunnelRec
      <3>2. Kind[tunnels[i].key] \in {"tcp", "loop", "outbound"}
        BY <3>1, ClientNodeAssumption
      <3> QED
        BY <2>1, <2>2, <3>2 DEF ClientInv, TunnelsInStep
    <2>4. PICK to \in {"top", "dial", "serve", "exit"} :
            /\ At(i, tunnels[i].pc, to)
            /\ to = "exit" /\ tunnels[i].live => Kind[tunnels[i].key] = "outbound"
      <3>1. CASE LoopTop(i)
        BY <3>1 DEF LoopTop, At
      <3>2. CASE Dialled(i)
        BY <3>2 DEF Dialled, At
      <3>3. CASE DialFails(i)
        BY <2>3, <3>3 DEF DialFails, At
      <3>4. CASE OutboundCancelled(i)
        BY <3>4 DEF OutboundCancelled, At
      <3>5. CASE ConnectionEnds(i)
        BY <2>3, <3>5 DEF ConnectionEnds, At
      <3> QED
        BY <3>1, <3>2, <3>3, <3>4, <3>5
    <2> QED
      BY <2>1, <2>2, <2>4, GoroutineMoves
  <1>13. CASE \E i \in 1..MaxTunnels : TunnelEnds(i)
    BY <1>13, TunnelEndsSafe
  <1>14. CASE \E p \in 1..MaxPipes : PipeStep(p) \/ PipeEnds(p)
    <2> PICK p \in 1..MaxPipes : PipeStep(p) \/ PipeEnds(p)
      BY <1>14
    <2>1. /\ UNCHANGED <<srvVars, linkVars, wire, nodeVars, reader, out>>
          /\ p \in DOMAIN pipes
          /\ \E to \in {"pipe", "done"} : pipes' = [pipes EXCEPT ![p].pc = to]
      BY DEF PipeStep, PipeStarts, PipeFails, PipeCancelled, PipeEnds, PipeAt
    <2> QED
      BY <1>t, <2>1, PumpAndPipeSafe
  <1>15. CASE UNCHANGED vars
    BY <1>15, <1>t, PumpAndPipeSafe DEF vars
  <1> QED
    BY <1>1, <1>2, <1>3, <1>4, <1>5, <1>6, <1>7, <1>8, <1>9, <1>10, <1>11, <1>12,
       <1>13, <1>14, <1>15 DEF Next, Handle, TunnelStep

(* After a connection is lost no context of its Handler is live            *)
(* (handler.go, Handler.Stop), and every proxy of the server is served or  *)
(* about to be, for any set of proxies and any number of connections,      *)
(* changes, contexts and messages.                                         *)
THEOREM ClientInvariant == Spec => []ClientInv
  BY ClientInvInit, ClientInvNext, PTL DEF Spec

(* Once everything sent is handled, the node's tunnels are the server's    *)
(* proxies, but for a tunnel whose cancel function was overwritten         *)
(* (registerTunnel), a proxy synchronised after its deletion and a tunnel  *)
(* that an older one's deferred stopTunnel cancelled.                      *)
THEOREM NodeAgreesWithServer == Spec => []AgreesWithServer
  <1>1. ClientInv => AgreesWithServer
    <2> SUFFICES ASSUME ClientInv, Quiet, NEW k \in Proxies
                 PROVE  /\ k \in srv => ServedByNode(k)
                        /\ k \notin srv \cup raced => LiveTunnels(k) \subseteq leaked
      BY DEF AgreesWithServer
    <2>1. /\ up /\ event # k /\ listing # "list" /\ k \notin todo /\ wire = <<>>
      BY MsgType DEF Quiet
    <2>2. \A p, n : ~LastIs(p, n)
      BY <2>1 DEF LastIs
    <2> QED
      BY <2>1, <2>2 DEF ClientInv, ServedOrToBe, ClosedOrToBe
  <1> QED
    BY <1>1, ClientInvariant, PTL
=============================================================================
