---------------------------- MODULE TransportProofs ---------------------------
(***************************************************************************)
(* Proofs about Transport: the inductive invariant, and the refinement of  *)
(* AtMostOnce.                                                             *)
(***************************************************************************)
EXTENDS Transport, FiniteSetTheorems, TLAPS

\* Everything but the client's own position.
elsewhere == <<bridgeVars, daemonVars, worker, conn, runs>>

LEMMA AttemptOf ==
  ASSUME TypeOK, NEW c \in Command
  PROVE  /\ At(c) \in Attempt
         /\ <<c, 1>> \in Attempt
         /\ <<c, 2>> \in Attempt
         /\ <<c, 3>> \in Attempt
BY DEF TypeOK, Attempt, At, Client

\* There are finitely many rows, so that they can be counted.
LEMMA PostedIsFinite == Cardinality(Posted) \in Nat
<1>1. IsFiniteSet(1..3)
  <2>1. 1 \in Int /\ 3 \in Int
    OBVIOUS
  <2> QED
    BY <2>1, FS_Interval
<1>2. IsFiniteSet(Attempt)
  BY <1>1, FS_Product, TransportAssumption DEF Attempt
<1>3. Posted \subseteq Attempt
  BY DEF Posted
<1>4. IsFiniteSet(Posted)
  BY <1>2, <1>3, FS_Subset
<1> QED
  BY <1>4, FS_CardinalityType

\* The program starts in the invariant.
THEOREM Initially == Init => TransportInv
<1> SUFFICES ASSUME Init PROVE TransportInv
  OBVIOUS
<1> USE TransportAssumption DEF Init, BridgeInit, NoRequest, NoConn, Idle
<1>1. TypeOK
  <2>1. worker \in [Worker -> Thread]
    BY DEF Thread, Result
  <2>2. conn \in [Attempt -> Conn]
    BY DEF Conn, Result
  <2>3. client \in [Command -> Client]
    BY DEF Client, Result
  <2>4. exits \in 0..MaxExits /\ runs \in [Attempt -> Nat]
    OBVIOUS
  <2>5. requests \in [Attempt -> Row]
    BY DEF Row
  <2> QED
    BY <2>1, <2>2, <2>3, <2>4, <2>5 DEF TypeOK, Phase
<1>2. LifetimeLock /\ ExitsLeft /\ OneThreadPerItem
  BY DEF LifetimeLock, ExitsLeft, OneThreadPerItem, Busy
<1>3. \A w \in Worker : ThreadOK(w)
  BY DEF ThreadOK, Busy
<1>4. \A r \in Attempt : RequestOK(r) /\ ConnOK(r)
  BY DEF RequestOK, ConnOK
<1>5. ASSUME NEW c \in Command PROVE ClientOK(c)
  <2>1. \A r \in Attempt : Unused(r)
    BY DEF Unused
  <2>2. At(c) \in Attempt /\ <<c, 2>> \in Attempt /\ <<c, 3>> \in Attempt
    BY <1>1, AttemptOf
  <2> QED
    BY <2>1, <2>2 DEF ClientOK
<1>6. SuccessIsReal
  BY DEF SuccessIsReal
<1> QED
  BY <1>1, <1>2, <1>3, <1>4, <1>5, <1>6 DEF TransportInv

--------------------------------------------------------------------------------
(* Frames *)

\* Threads that stay where they are, and whose items do.
LEMMA SameThreads ==
  ASSUME \A w \in Worker : ThreadOK(w), OneThreadPerItem, UNCHANGED worker,
         \A w \in Worker : Busy(w) => /\ requests'[worker[w].item] = requests[worker[w].item]
                                      /\ runs'[worker[w].item] = runs[worker[w].item],
         \A d \in Daemon : proc[d] \in Working => proc'[d] \in Working
  PROVE  (\A w \in Worker : ThreadOK(w))' /\ OneThreadPerItem'
BY DEF ThreadOK, OneThreadPerItem, Busy, Worker

LEMMA SameRows ==
  ASSUME \A r \in Attempt : RequestOK(r) /\ ConnOK(r),
         UNCHANGED <<requests, conn, runs>>
  PROVE  (\A r \in Attempt : RequestOK(r) /\ ConnOK(r))'
BY DEF RequestOK, ConnOK

\* A client that stays where it is loses nothing by what the others do to
\* attempts already under way.
LEMMA SameClient ==
  ASSUME TypeOK, NEW c \in Command, ClientOK(c), client'[c] = client[c],
         \A k \in 1..3 : /\ Unused(<<c, k>>) => Unused(<<c, k>>)'
                         /\ requests[<<c, k>>].status # "none" => requests'[<<c, k>>].status # "none"
                         /\ runs[<<c, k>>] = 1 => runs'[<<c, k>>] = 1
  PROVE  ClientOK(c)'
<1>1. client[c].n \in 1..3 /\ 2 \in 1..3 /\ 3 \in 1..3
  BY DEF TypeOK, Client
<1>2. At(c)' = At(c) /\ At(c) = <<c, client[c].n>>
  BY DEF At
<1> QED
  BY <1>1, <1>2 DEF ClientOK, Ended

\* Nobody moves, and no attempt under way is forgotten.
LEMMA SameClients ==
  ASSUME TransportInv, UNCHANGED client,
         \A r \in Attempt : /\ Unused(r) => Unused(r)'
                            /\ requests[r].status # "none" => requests'[r].status # "none"
                            /\ runs[r] = 1 => runs'[r] = 1
  PROVE  (\A c \in Command : ClientOK(c))' /\ SuccessIsReal'
<1>1. \A c \in Command, k \in 1..3 : <<c, k>> \in Attempt
  BY DEF Attempt
<1>2. ASSUME NEW c \in Command PROVE ClientOK(c)'
  BY <1>1, SameClient DEF TransportInv
<1>3. SuccessIsReal'
  BY <1>1 DEF TransportInv, SuccessIsReal
<1> QED
  BY <1>2, <1>3

\* A step of one client that only moves it.
LEMMA ClientMove ==
  ASSUME TransportInv, UNCHANGED elsewhere,
         NEW c \in Command, NEW x \in Client,
         client' = [client EXCEPT ![c] = x],
         ClientOK(c)',
         x.pc = "succeeded" => \E n \in 1..3 : runs[<<c, n>>] = 1
  PROVE  TransportInv'
<1> USE DEF TransportInv, elsewhere, bridgeVars, daemonVars
<1>1. TypeOK'
  BY DEF TypeOK
<1>2. LifetimeLock' /\ ExitsLeft'
  BY DEF LifetimeLock, ExitsLeft
<1>3. (\A w \in Worker : ThreadOK(w))' /\ OneThreadPerItem'
  BY SameThreads
<1>4. (\A r \in Attempt : RequestOK(r) /\ ConnOK(r))'
  BY SameRows
<1>5. ASSUME NEW b \in Command PROVE ClientOK(b)'
  <2>1. CASE b = c
    BY <2>1
  <2>2. CASE b # c
    <3>1. client'[b] = client[b]
      BY <2>2 DEF TypeOK
    <3> QED
      BY <3>1, SameClient DEF Unused
  <2> QED
    BY <2>1, <2>2
<1>6. SuccessIsReal'
  BY DEF SuccessIsReal, TypeOK
<1> QED
  BY <1>1, <1>2, <1>3, <1>4, <1>5, <1>6

--------------------------------------------------------------------------------
(* The steps of a command *)

LEMMA Moved ==
  ASSUME TransportInv, UNCHANGED elsewhere, NEW c \in Command,
         NEW pc \in {"connect", "receive", "mail", "enqueue", "poll", "cancel", "unavailable",
                     "start", "direct", "succeeded", "failed", "killed"},
         Move(c, pc),
         client[c].pc \notin Ended,
         pc \in {"connect", "mail", "enqueue"} => client[c].pc \in {"idle", "connect", "mail"},
         pc \in {"start", "direct"} => client[c].n = 1,
         pc \in {"poll", "cancel"} => client[c].pc = "poll",
         pc = "succeeded" => runs[At(c)] = 1
  PROVE  TransportInv'
<1> DEFINE x == [client[c] EXCEPT !.pc = pc]
<1>0. /\ client \in [Command -> Client]
      /\ client[c] \in Client
      /\ ClientOK(c)
  BY DEF TransportInv, TypeOK
<1>1. x \in Client /\ x.pc = pc /\ x.n = client[c].n /\ x.result = client[c].result
  BY <1>0 DEF Client
<1>2. client' = [client EXCEPT ![c] = x]
  BY <1>0 DEF Move
<1>3. client'[c] = x
  BY <1>0, <1>2
<1>4. UNCHANGED <<requests, conn, runs>>
  BY DEF elsewhere, bridgeVars
<1>5. At(c)' = At(c)
  BY <1>1, <1>3 DEF At
<1>6. \A r : Unused(r)' = Unused(r)
  BY <1>4 DEF Unused
<1>7. ClientOK(c)'
  <2> HIDE DEF x
  <2> QED
    BY <1>0, <1>1, <1>3, <1>4, <1>5, <1>6 DEF ClientOK, Ended
<1>8. x.pc = "succeeded" => \E n \in 1..3 : runs[<<c, n>>] = 1
  BY <1>0, <1>1 DEF At, Client
<1> QED
  BY <1>1, <1>2, <1>7, <1>8, ClientMove

LEMMA StepIssue ==
  ASSUME TransportInv, NEW c \in Command, Issue(c) PROVE TransportInv'
BY Moved DEF Issue, elsewhere, bridgeVars, Ended

LEMMA StepConnectFails ==
  ASSUME TransportInv, NEW c \in Command, ConnectFails(c) PROVE TransportInv'
BY Moved DEF ConnectFails, elsewhere, Ended

LEMMA StepReceive ==
  ASSUME TransportInv, NEW c \in Command, Receive(c) PROVE TransportInv'
<1>1. conn[At(c)].st = "ok" => runs[At(c)] = 1
  BY AttemptOf DEF TransportInv, ConnOK
<1> QED
  BY <1>1, Moved DEF Receive, elsewhere, Ended

LEMMA StepReceiveFails ==
  ASSUME TransportInv, NEW c \in Command, ReceiveFails(c) PROVE TransportInv'
BY Moved DEF ReceiveFails, elsewhere, Ended

LEMMA StepMail ==
  ASSUME TransportInv, NEW c \in Command, Mail(c) PROVE TransportInv'
BY Moved DEF Mail, elsewhere, Ended

LEMMA StepPollNotReady ==
  ASSUME TransportInv, NEW c \in Command, PollNotReady(c) PROVE TransportInv'
BY Moved DEF PollNotReady, elsewhere, Ended

LEMMA StepUnavailable ==
  ASSUME TransportInv, NEW c \in Command, Unavailable(c) PROVE TransportInv'
<1>1. client[c].n \in {1, 2}
  BY DEF TransportInv, TypeOK, Client
<1> QED
  BY <1>1, Moved DEF Unavailable, elsewhere, Ended

LEMMA StepStartFails ==
  ASSUME TransportInv, NEW c \in Command, StartFails(c) PROVE TransportInv'
BY Moved DEF StartFails, elsewhere, Ended, TransportInv, ClientOK

LEMMA StepKilled ==
  ASSUME TransportInv, NEW c \in Command, Killed(c) PROVE TransportInv'
BY Moved DEF Killed, elsewhere, Ended

LEMMA StepPollAnswered ==
  ASSUME TransportInv, NEW c \in Command, PollAnswered(c) PROVE TransportInv'
<1> DEFINE v == IF At(c) \in With("done") THEN "ok" ELSE "error"
           x == [client[c] EXCEPT !.pc = "acknowledge", !.result = v]
<1>0. /\ client \in [Command -> Client]
      /\ client[c] \in Client
      /\ At(c) \in Attempt
      /\ ClientOK(c)
      /\ RequestOK(At(c))
  BY AttemptOf DEF TransportInv, TypeOK
<1>1. x \in Client /\ x.pc = "acknowledge" /\ x.n = client[c].n /\ x.result = v
  BY <1>0 DEF Client, Result
<1>2. client' = [client EXCEPT ![c] = x]
  BY <1>0 DEF PollAnswered
<1>3. UNCHANGED <<requests, conn, runs>> /\ UNCHANGED elsewhere
  BY DEF PollAnswered, elsewhere, bridgeVars
<1>4. v = "ok" => runs[At(c)] = 1
  BY <1>0 DEF With, RequestOK
<1>5. At(c)' = At(c)
  BY <1>0, <1>1, <1>2 DEF At
<1>6. \A r : Unused(r)' = Unused(r)
  BY <1>3 DEF Unused
<1>7. ClientOK(c)'
  <2>1. client'[c] = x
    BY <1>0, <1>2
  <2> HIDE DEF x, v
  <2> QED
    BY <1>0, <1>1, <1>3, <1>4, <1>5, <1>6, <2>1 DEF ClientOK, Ended, PollAnswered
<1> QED
  BY <1>1, <1>2, <1>3, <1>7, ClientMove

LEMMA StepStarted ==
  ASSUME TransportInv, NEW c \in Command, Started(c) PROVE TransportInv'
<1> DEFINE x == [client[c] EXCEPT !.pc = "connect", !.n = 2]
<1>0. /\ client \in [Command -> Client]
      /\ client[c] \in Client
      /\ ClientOK(c)
  BY DEF TransportInv, TypeOK
<1>1. x \in Client /\ x.pc = "connect" /\ x.n = 2
  BY <1>0 DEF Client
<1>2. client' = [client EXCEPT ![c] = x] /\ client[c].pc = "start"
  BY <1>0 DEF Started
<1>3. UNCHANGED <<requests, conn, runs>> /\ UNCHANGED elsewhere
  BY DEF Started, elsewhere, bridgeVars
<1>4. client'[c] = x
  BY <1>0, <1>2
<1>5. At(c)' = <<c, 2>>
  BY <1>1, <1>4 DEF At
<1>6. \A r : Unused(r)' = Unused(r)
  BY <1>3 DEF Unused
<1>7. ClientOK(c)'
  <2> HIDE DEF x
  <2> QED
    BY <1>0, <1>1, <1>2, <1>4, <1>5, <1>6 DEF ClientOK, Ended
<1> QED
  BY <1>1, <1>2, <1>3, <1>7, ClientMove

\* A step of client c that writes the row of its attempt.
LEMMA RowMove ==
  ASSUME TransportInv, NEW c \in Command, NEW x \in Row, NEW y \in Client,
         UNCHANGED <<hostVars, daemonVars, worker, conn, runs>>,
         requests' = [requests EXCEPT ![At(c)] = x],
         client' = [client EXCEPT ![c] = y],
         y.n = client[c].n, y.pc \in {"poll", "unavailable", "succeeded", "failed"},
         client[c].pc \notin Ended,
         requests[At(c)].status = "processing" => x = requests[At(c)],
         NEW a \in Attempt, a = At(c), RequestOK(a)',
         conn[a].st = "none", x.status # "none",
         y.pc = "succeeded" => runs[At(c)] = 1
  PROVE  TransportInv'
<1> USE DEF TransportInv
<1>0. /\ requests \in [Attempt -> Row]
      /\ client \in [Command -> Client]
      /\ At(c) \in Attempt
      /\ ClientOK(c)
      /\ client[c].n \in {1, 2}
      /\ <<c, 2>> \in Attempt /\ <<c, 3>> \in Attempt
  BY AttemptOf DEF TypeOK, Client
<1>1. TypeOK'
  <2>1. requests' \in [Attempt -> Row] /\ client' \in [Command -> Client]
    BY <1>0
  <2> QED
    BY <2>1 DEF TypeOK, hostVars, daemonVars
<1>2. LifetimeLock' /\ ExitsLeft'
  BY DEF LifetimeLock, ExitsLeft, daemonVars
<1>3. \A r \in Attempt : r # At(c) => requests'[r] = requests[r]
  BY <1>0
<1>4. requests'[At(c)] = x
  BY <1>0
<1>5. (\A w \in Worker : ThreadOK(w))' /\ OneThreadPerItem'
  <2>1. \A w \in Worker : Busy(w) => requests'[worker[w].item] = requests[worker[w].item]
    BY <1>3, <1>4 DEF ThreadOK, Busy
  <2> QED
    BY <2>1, SameThreads DEF daemonVars
<1>6. ASSUME NEW r \in Attempt PROVE RequestOK(r)' /\ ConnOK(r)'
  <2>1. CASE r = At(c)
    BY <2>1 DEF ConnOK
  <2>2. CASE r # At(c)
    BY <2>2, <1>3 DEF RequestOK, ConnOK
  <2> QED
    BY <2>1, <2>2
<1>7. ASSUME NEW b \in Command PROVE ClientOK(b)'
  <2>1. CASE b = c
    <3>1. client'[c] = y /\ At(c)' = At(c)
      BY <1>0 DEF At
    <3>2. At(c) = <<c, client[c].n>>
      BY DEF At
    <3>3. At(c) # <<c, 3>> /\ (client[c].n = 1 => At(c) # <<c, 2>>)
      BY <1>0, <3>2
    <3>4. /\ client[c].n = 1 => Unused(<<c, 2>>)'
          /\ Unused(<<c, 3>>)'
      BY <1>0, <1>3, <3>3 DEF ClientOK, Unused
    <3> QED
      BY <2>1, <1>4, <3>1, <3>4 DEF ClientOK, Ended
  <2>2. CASE b # c
    <3>1. \A k \in 1..3 : <<b, k>> \in Attempt /\ <<b, k>> # At(c)
      BY <2>2 DEF Attempt, At
    <3>2. \A k \in 1..3 : requests'[<<b, k>>] = requests[<<b, k>>]
      BY <3>1, <1>3
    <3>3. client'[b] = client[b]
      BY <1>0, <2>2
    <3> QED
      BY <3>2, <3>3, SameClient DEF Unused
  <2> QED
    BY <2>1, <2>2
<1>8. SuccessIsReal'
  <2>1. y.pc = "succeeded" => \E n \in 1..3 : runs[<<c, n>>] = 1
    BY <1>0 DEF At
  <2> QED
    BY <2>1, <1>0 DEF SuccessIsReal
<1> QED
  BY <1>1, <1>2, <1>5, <1>6, <1>7, <1>8

\* What is known of the attempt of a client that waits for the mailbox.
LEMMA Waiting ==
  ASSUME TransportInv, NEW c \in Command, client[c].pc \in {"poll", "cancel", "acknowledge"}
  PROVE  /\ At(c) \in Attempt
         /\ requests \in [Attempt -> Row]
         /\ requests[At(c)] \in Row
         /\ requests[At(c)].status # "none"
         /\ conn[At(c)].st = "none"
         /\ RequestOK(At(c))
         /\ client[c] \in Client
         /\ client \in [Command -> Client]
         /\ client[c].pc \notin Ended
BY AttemptOf DEF TransportInv, TypeOK, ConnOK, ClientOK, Ended

LEMMA Renamed ==
  ASSUME NEW x \in Client,
         NEW pc \in {"poll", "unavailable", "succeeded", "failed"}
  PROVE  /\ [x EXCEPT !.pc = pc] \in Client
         /\ [x EXCEPT !.pc = pc].pc = pc
         /\ [x EXCEPT !.pc = pc].n = x.n
BY DEF Client

\* What cancel_if_queued makes of a row.
Withdrawn(x) ==
  IF x.status = "queued" THEN [x EXCEPT !.status = "error", !.answer = "withdrawn"] ELSE x

LEMMA CancelIsWithdrawn ==
  ASSUME requests \in [Attempt -> Row], NEW r \in Attempt, cancel_if_queued(r)
  PROVE  requests' = [requests EXCEPT ![r] = Withdrawn(requests[r])]
BY DEF cancel_if_queued, With, Withdrawn

LEMMA WithdrawnRow ==
  ASSUME NEW x \in Row
  PROVE  /\ Withdrawn(x) \in Row
         /\ x.status = "queued" =>
              Withdrawn(x).status = "error" /\ Withdrawn(x).answer = "withdrawn"
         /\ x.status # "queued" => Withdrawn(x) = x
BY DEF Withdrawn, Row

LEMMA StepGiveUp ==
  ASSUME TransportInv, NEW c \in Command, Cancel(c) \/ Deadline(c) PROVE TransportInv'
<1> DEFINE x == Withdrawn(requests[At(c)])
<1>0. client[c].pc \in {"poll", "cancel"}
  BY DEF Cancel, Deadline
<1>1. /\ UNCHANGED <<hostVars, daemonVars, worker, conn, runs>>
      /\ cancel_if_queued(At(c))
      /\ \E p \in {"poll", "unavailable"} : Move(c, p)
  BY DEF Cancel, Deadline
<1>2. PICK p \in {"poll", "unavailable"} : Move(c, p)
  BY <1>1
<1>3. requests' = [requests EXCEPT ![At(c)] = x]
  BY <1>0, <1>1, Waiting, CancelIsWithdrawn
<1>4. /\ x \in Row
      /\ requests[At(c)].status = "queued" => x.status = "error" /\ x.answer = "withdrawn"
      /\ requests[At(c)].status # "queued" => x = requests[At(c)]
  BY <1>0, Waiting, WithdrawnRow
<1> HIDE DEF x
<1>5. requests'[At(c)] = x /\ runs'[At(c)] = runs[At(c)]
  BY <1>0, <1>1, <1>3, Waiting
<1>6. ASSUME NEW r \in Attempt, r = At(c) PROVE RequestOK(r)'
  BY <1>0, <1>4, <1>5, <1>6, Waiting DEF RequestOK
<1>7. client' = [client EXCEPT ![c] = [client[c] EXCEPT !.pc = p]]
  BY <1>0, <1>2, Waiting DEF Move
<1>8. /\ [client[c] EXCEPT !.pc = p] \in Client
      /\ [client[c] EXCEPT !.pc = p].pc = p
      /\ [client[c] EXCEPT !.pc = p].n = client[c].n
  <2>1. client[c] \in Client
    BY <1>0, Waiting
  <2>2. p \in {"poll", "unavailable", "succeeded", "failed"}
    OBVIOUS
  <2> QED
    BY <2>1, <2>2, Renamed
<1>9. x.status # "none"
  BY <1>0, <1>4, Waiting
<1>10. /\ client[c].pc \notin Ended
       /\ requests[At(c)].status = "processing" => x = requests[At(c)]
       /\ conn[At(c)].st = "none"
       /\ At(c) \in Attempt
  BY <1>0, <1>4, Waiting
<1> QED
  BY <1>1, <1>3, <1>4, <1>6, <1>7, <1>8, <1>9, <1>10, RowMove

LEMMA StepEnqueue ==
  ASSUME TransportInv, NEW c \in Command, Enqueue(c) PROVE TransportInv'
<1> DEFINE x == [status |-> "queued", created |-> Cardinality(Posted), answer |-> "none"]
           y == [client[c] EXCEPT !.pc = "poll"]
<1>0. /\ client \in [Command -> Client]
      /\ requests \in [Attempt -> Row]
      /\ client[c] \in Client
      /\ At(c) \in Attempt
      /\ Unused(At(c))
      /\ client[c].pc \notin Ended
  BY AttemptOf DEF TransportInv, TypeOK, ClientOK, Enqueue, Ended
<1>1. x \in Row /\ x.status # "none" /\ x.status = "queued" /\ x.answer = "none"
  BY PostedIsFinite DEF Row
<1>2. requests' = [requests EXCEPT ![At(c)] = x]
  BY DEF Enqueue, enqueue
<1> HIDE DEF x
<1>3. ASSUME NEW r \in Attempt, r = At(c) PROVE RequestOK(r)'
  <2>1. requests'[r] = x /\ runs'[r] = 0
    BY <1>0, <1>2, <1>3 DEF Enqueue, Unused
  <2> QED
    BY <1>1, <2>1 DEF RequestOK
<1>4. y \in Client /\ y.pc = "poll" /\ y.n = client[c].n
  BY <1>0, Renamed
<1>5. client' = [client EXCEPT ![c] = y]
  BY <1>0 DEF Enqueue, Move
<1>6. UNCHANGED <<hostVars, daemonVars, worker, conn, runs>>
  BY DEF Enqueue
<1>7. requests[At(c)].status # "processing" /\ conn[At(c)].st = "none"
  BY <1>0 DEF Unused
<1> QED
  BY <1>0, <1>1, <1>2, <1>3, <1>4, <1>5, <1>6, <1>7, RowMove

LEMMA StepAcknowledge ==
  ASSUME TransportInv, NEW c \in Command, Acknowledge(c) PROVE TransportInv'
<1> DEFINE p == IF client[c].result = "ok" THEN "succeeded" ELSE "failed"
           y == [client[c] EXCEPT !.pc = p]
           x == [requests[At(c)] EXCEPT !.status = IF At(c) \in Settled THEN "deleted" ELSE @]
<1>0. client[c].pc = "acknowledge"
  BY DEF Acknowledge
<1>1. /\ requests \in [Attempt -> Row]
      /\ requests[At(c)] \in Row
      /\ At(c) \in Attempt
      /\ requests[At(c)].status # "none"
      /\ conn[At(c)].st = "none"
      /\ RequestOK(At(c))
      /\ client[c] \in Client
      /\ client \in [Command -> Client]
      /\ client[c].pc \notin Ended
  BY <1>0, Waiting
<1>2. /\ x \in Row
      /\ x.answer = requests[At(c)].answer
      /\ IF requests[At(c)].status \in {"done", "error"} THEN x.status = "deleted"
         ELSE x.status = requests[At(c)].status /\ x = requests[At(c)]
  BY <1>1 DEF Row, Settled, With
<1>3. requests' = [requests EXCEPT ![At(c)] = x]
  BY <1>1 DEF Acknowledge, acknowledge
<1> HIDE DEF x
<1>4. ASSUME NEW r \in Attempt, r = At(c) PROVE RequestOK(r)'
  <2>1. requests'[r] = x /\ runs'[r] = runs[r]
    BY <1>1, <1>3, <1>4 DEF Acknowledge
  <2> QED
    BY <1>1, <1>2, <1>4, <2>1 DEF RequestOK
<1>5. p \in {"poll", "unavailable", "succeeded", "failed"}
  OBVIOUS
<1>6. y \in Client /\ y.pc = p /\ y.n = client[c].n
  BY <1>1, <1>5, Renamed
<1>7. client' = [client EXCEPT ![c] = y]
  BY <1>1 DEF Acknowledge, Move
<1>8. UNCHANGED <<hostVars, daemonVars, worker, conn, runs>>
  BY DEF Acknowledge
<1>9. p = "succeeded" => runs[At(c)] = 1
  BY <1>0 DEF TransportInv, ClientOK
<1>10. requests[At(c)].status = "processing" => x = requests[At(c)]
  BY <1>2
<1>11. x.status # "none"
  BY <1>1, <1>2
<1> HIDE DEF y, p
<1> QED
  BY <1>1, <1>2, <1>3, <1>4, <1>5, <1>6, <1>7, <1>8, <1>9, <1>10, <1>11, RowMove

\* The effect of attempt r takes place, or not; nothing else about r changes
\* that anybody but its carrier reads.
LEMMA Executed ==
  ASSUME TypeOK, NEW r \in Attempt, NEW v \in Result, Execute(r, v), runs[r] = 0
  PROVE  /\ runs' \in [Attempt -> Nat]
         /\ runs'[r] \in {0, 1}
         /\ v = "ok" => runs'[r] = 1
         /\ \A q \in Attempt : q # r => runs'[q] = runs[q]
BY DEF Execute, TypeOK

LEMMA StepDirect ==
  ASSUME TransportInv, NEW c \in Command, Direct(c) PROVE TransportInv'
<1> USE DEF TransportInv
<1> DEFINE r == <<c, 3>>
<1>0. PICK v \in Result :
        Execute(r, v) /\ Move(c, IF v = "ok" THEN "succeeded" ELSE "failed")
  BY DEF Direct
<1>1. /\ r \in Attempt
      /\ Unused(r)
      /\ client \in [Command -> Client]
      /\ client[c] \in Client
      /\ client[c].pc = "direct"
      /\ client[c].n = 1
      /\ ClientOK(c)
  BY AttemptOf DEF TypeOK, ClientOK, Direct, Ended
<1>2. UNCHANGED <<bridgeVars, daemonVars, worker, conn>>
  BY DEF Direct
<1>3. /\ runs' \in [Attempt -> Nat]
      /\ runs'[r] \in {0, 1}
      /\ v = "ok" => runs'[r] = 1
      /\ \A q \in Attempt : q # r => runs'[q] = runs[q]
  BY <1>0, <1>1, Executed DEF Unused
<1> DEFINE p == IF v = "ok" THEN "succeeded" ELSE "failed"
           y == [client[c] EXCEPT !.pc = p]
<1>4. y \in Client /\ y.pc = p /\ y.n = client[c].n
  <2>1. p \in {"poll", "unavailable", "succeeded", "failed"}
    OBVIOUS
  <2> QED
    BY <1>1, <2>1, Renamed
<1>5. client' = [client EXCEPT ![c] = y]
  BY <1>0, <1>1 DEF Move
<1> HIDE DEF r
<1>6. TypeOK'
  <2>1. client' \in [Command -> Client]
    BY <1>1, <1>4, <1>5
  <2> QED
    BY <1>2, <1>3, <2>1 DEF TypeOK, bridgeVars, daemonVars
<1>7. LifetimeLock' /\ ExitsLeft'
  BY <1>2 DEF LifetimeLock, ExitsLeft, daemonVars
<1>8. (\A w \in Worker : ThreadOK(w))' /\ OneThreadPerItem'
  <2>1. ASSUME NEW w \in Worker, Busy(w)
        PROVE  /\ requests'[worker[w].item] = requests[worker[w].item]
               /\ runs'[worker[w].item] = runs[worker[w].item]
    <3>1. worker[w].item \in Attempt /\ worker[w].item # r
      BY <1>1, <2>1 DEF ThreadOK, Busy, Unused
    <3> QED
      BY <1>2, <1>3, <3>1 DEF bridgeVars
  <2> QED
    BY <1>2, <2>1, SameThreads DEF daemonVars
<1>9. ASSUME NEW q \in Attempt PROVE RequestOK(q)' /\ ConnOK(q)'
  <2>1. CASE q = r
    BY <1>1, <1>2, <1>3, <2>1 DEF RequestOK, ConnOK, Unused, bridgeVars
  <2>2. CASE q # r
    BY <1>2, <1>3, <2>2 DEF RequestOK, ConnOK, bridgeVars
  <2> QED
    BY <2>1, <2>2
<1>10. ASSUME NEW b \in Command PROVE ClientOK(b)'
  <2>1. CASE b = c
    <3>1. client'[c] = y /\ y.pc \in Ended /\ y.pc \notin {"poll", "cancel", "acknowledge"}
      BY <1>1, <1>4, <1>5 DEF Ended
    <3>2. y.pc \notin {"idle", "connect", "mail", "enqueue", "start", "direct"}
      BY <1>4
    <3>3. <<c, 2>> \in Attempt /\ <<c, 2>> # r
      BY DEF Attempt, r
    <3>4. Unused(<<c, 2>>)'
      BY <1>1, <1>2, <1>3, <3>3 DEF ClientOK, Unused, bridgeVars
    <3> HIDE DEF y
    <3> QED
      BY <2>1, <3>1, <3>2, <3>4 DEF ClientOK
  <2>2. CASE b # c
    <3>1. \A k \in 1..3 : <<b, k>> \in Attempt /\ <<b, k>> # r
      BY <2>2 DEF Attempt, r
    <3>2. \A k \in 1..3 : runs'[<<b, k>>] = runs[<<b, k>>]
      BY <3>1, <1>3
    <3>3. client'[b] = client[b]
      BY <1>1, <1>5, <2>2
    <3> QED
      BY <1>2, <3>2, <3>3, SameClient DEF Unused, bridgeVars
  <2> QED
    BY <2>1, <2>2
<1>11. SuccessIsReal'
  <2> SUFFICES ASSUME NEW b \in Command, client'[b].pc = "succeeded"
               PROVE  \E n \in 1..3 : runs'[<<b, n>>] = 1
    BY DEF SuccessIsReal
  <2>1. CASE b = c
    <3>1. v = "ok"
      BY <1>1, <1>4, <1>5, <2>1
    <3> QED
      BY <1>3, <2>1, <3>1 DEF r
  <2>2. CASE b # c
    <3>1. client[b].pc = "succeeded"
      BY <1>1, <1>5, <2>2
    <3>2. \A k \in 1..3 : <<b, k>> \in Attempt /\ <<b, k>> # r
      BY <2>2 DEF Attempt, r
    <3> QED
      BY <1>3, <3>1, <3>2 DEF SuccessIsReal
  <2> QED
    BY <2>1, <2>2
<1> QED
  BY <1>6, <1>7, <1>8, <1>9, <1>10, <1>11

LEMMA StepConnect ==
  ASSUME TransportInv, NEW c \in Command, Connect(c) PROVE TransportInv'
<1> USE DEF TransportInv
<1> DEFINE y == [client[c] EXCEPT !.pc = "receive"]
<1>0. PICK d \in Daemon : conn' = [conn EXCEPT ![At(c)] = [st |-> "backlog", d |-> d]]
  BY DEF Connect
<1>1. /\ client \in [Command -> Client]
      /\ conn \in [Attempt -> Conn]
      /\ client[c] \in Client
      /\ At(c) \in Attempt
      /\ <<c, 2>> \in Attempt
      /\ <<c, 3>> \in Attempt
      /\ client[c].pc = "connect"
      /\ client[c].n \in {1, 2}
      /\ ClientOK(c)
      /\ Unused(At(c))
      /\ Unused(<<c, 3>>)
      /\ client[c].n = 1 => Unused(<<c, 2>>)
  BY AttemptOf DEF TypeOK, Client, ClientOK, Connect, Ended
<1>2. UNCHANGED <<bridgeVars, daemonVars, worker, runs>>
  BY DEF Connect
<1>3. y \in Client /\ y.pc = "receive" /\ y.n = client[c].n
  BY <1>1 DEF Client
<1>4. client' = [client EXCEPT ![c] = y]
  BY <1>1 DEF Connect, Move
<1> HIDE DEF y
<1>5. conn' \in [Attempt -> Conn] /\ conn'[At(c)].st = "backlog"
  BY <1>0, <1>1 DEF Conn
<1>6. \A r \in Attempt : r # At(c) => conn'[r] = conn[r]
  BY <1>0, <1>1
<1>7. TypeOK'
  <2>1. client' \in [Command -> Client]
    BY <1>1, <1>3, <1>4
  <2> QED
    BY <1>2, <1>5, <2>1 DEF TypeOK, bridgeVars, daemonVars
<1>8. LifetimeLock' /\ ExitsLeft'
  BY <1>2 DEF LifetimeLock, ExitsLeft, daemonVars
<1>9. (\A w \in Worker : ThreadOK(w))' /\ OneThreadPerItem'
  BY <1>2, SameThreads DEF daemonVars, bridgeVars
<1>10. ASSUME NEW r \in Attempt PROVE RequestOK(r)' /\ ConnOK(r)'
  <2>1. CASE r = At(c)
    BY <1>1, <1>2, <1>5, <2>1 DEF RequestOK, ConnOK, Unused, bridgeVars
  <2>2. CASE r # At(c)
    BY <1>2, <1>6, <2>2 DEF RequestOK, ConnOK, bridgeVars
  <2> QED
    BY <2>1, <2>2
<1>11. ASSUME NEW b \in Command PROVE ClientOK(b)'
  <2>1. CASE b = c
    <3>1. client'[c] = y
      BY <1>1, <1>4
    <3>2. At(c) # <<c, 3>> /\ (client[c].n = 1 => At(c) # <<c, 2>>)
      BY <1>1 DEF At
    <3>3. Unused(<<c, 3>>)' /\ (client[c].n = 1 => Unused(<<c, 2>>)')
      BY <1>1, <1>2, <1>6, <3>2 DEF Unused, bridgeVars
    <3> QED
      BY <1>3, <2>1, <3>1, <3>3 DEF ClientOK
  <2>2. CASE b # c
    <3>1. \A k \in 1..3 : <<b, k>> \in Attempt /\ <<b, k>> # At(c)
      BY <2>2 DEF Attempt, At
    <3>2. \A k \in 1..3 : conn'[<<b, k>>] = conn[<<b, k>>]
      BY <3>1, <1>6
    <3>3. client'[b] = client[b]
      BY <1>1, <1>4, <2>2
    <3> QED
      BY <1>2, <3>2, <3>3, SameClient DEF Unused, bridgeVars
  <2> QED
    BY <2>1, <2>2
<1>12. SuccessIsReal'
  BY <1>1, <1>2, <1>3, <1>4 DEF SuccessIsReal
<1> QED
  BY <1>7, <1>8, <1>9, <1>10, <1>11, <1>12

LEMMA ClientKeepsInv ==
  ASSUME TransportInv, NEW c \in Command, ClientStep(c) PROVE TransportInv'
BY StepIssue, StepConnect, StepConnectFails, StepReceive, StepReceiveFails, StepMail,
   StepEnqueue, StepPollAnswered, StepAcknowledge, StepPollNotReady, StepGiveUp,
   StepUnavailable, StepStarted, StepStartFails, StepDirect, StepKilled
   DEF ClientStep

--------------------------------------------------------------------------------
(* The steps of a connection *)

LEMMA StepAccept ==
  ASSUME TransportInv, NEW r \in Attempt, Accept(r) PROVE TransportInv'
<1> USE DEF TransportInv
<1>0. UNCHANGED <<bridgeVars, daemonVars, worker, client, runs>>
  BY DEF Accept
<1>1. /\ conn' \in [Attempt -> Conn]
      /\ conn[r].st = "backlog" /\ conn'[r].st = "accepted"
      /\ \A q \in Attempt : q # r => conn'[q] = conn[q]
  BY DEF Accept, TypeOK, Conn
<1>2. TypeOK'
  BY <1>0, <1>1 DEF TypeOK, bridgeVars, daemonVars
<1>3. LifetimeLock' /\ ExitsLeft'
  BY <1>0 DEF LifetimeLock, ExitsLeft, daemonVars
<1>4. (\A w \in Worker : ThreadOK(w))' /\ OneThreadPerItem'
  BY <1>0, SameThreads DEF daemonVars, bridgeVars
<1>5. ASSUME NEW q \in Attempt PROVE RequestOK(q)' /\ ConnOK(q)'
  BY <1>0, <1>1 DEF RequestOK, ConnOK, bridgeVars
<1>6. (\A c \in Command : ClientOK(c))' /\ SuccessIsReal'
  <2>1. \A q \in Attempt : Unused(q) => Unused(q)'
    BY <1>0, <1>1 DEF Unused, bridgeVars
  <2> QED
    BY <1>0, <2>1, SameClients DEF bridgeVars
<1> QED
  BY <1>2, <1>3, <1>4, <1>5, <1>6

LEMMA StepServe ==
  ASSUME TransportInv, NEW r \in Attempt, Serve(r) PROVE TransportInv'
<1> USE DEF TransportInv
<1>0. UNCHANGED <<bridgeVars, daemonVars, worker, client>>
  BY DEF Serve
<1>1. PICK v \in Result : Execute(r, v) /\ conn' = [conn EXCEPT ![r].st = v]
  BY DEF Serve
<1>2. conn[r].st = "accepted" /\ runs[r] = 0 /\ requests[r].status = "none"
  BY DEF Serve, ConnOK
<1>3. /\ runs' \in [Attempt -> Nat]
      /\ runs'[r] \in {0, 1}
      /\ v = "ok" => runs'[r] = 1
      /\ \A q \in Attempt : q # r => runs'[q] = runs[q]
  BY <1>1, <1>2, Executed
<1>4. /\ conn' \in [Attempt -> Conn]
      /\ conn'[r].st = v
      /\ \A q \in Attempt : q # r => conn'[q] = conn[q]
  BY <1>1 DEF TypeOK, Conn
<1>5. TypeOK'
  BY <1>0, <1>3, <1>4 DEF TypeOK, bridgeVars, daemonVars
<1>6. LifetimeLock' /\ ExitsLeft'
  BY <1>0 DEF LifetimeLock, ExitsLeft, daemonVars
<1>7. (\A w \in Worker : ThreadOK(w))' /\ OneThreadPerItem'
  <2>1. ASSUME NEW w \in Worker, Busy(w)
        PROVE  /\ requests'[worker[w].item] = requests[worker[w].item]
               /\ runs'[worker[w].item] = runs[worker[w].item]
    <3>1. worker[w].item \in Attempt /\ worker[w].item # r
      BY <1>2, <2>1 DEF ThreadOK, Busy
    <3> QED
      BY <1>0, <1>3, <3>1 DEF bridgeVars
  <2> QED
    BY <1>0, <2>1, SameThreads DEF daemonVars
<1>8. ASSUME NEW q \in Attempt PROVE RequestOK(q)' /\ ConnOK(q)'
  <2>1. CASE q = r
    BY <1>0, <1>2, <1>3, <1>4, <2>1 DEF RequestOK, ConnOK, Result, bridgeVars
  <2>2. CASE q # r
    BY <1>0, <1>3, <1>4, <2>2 DEF RequestOK, ConnOK, bridgeVars
  <2> QED
    BY <2>1, <2>2
<1>9. (\A c \in Command : ClientOK(c))' /\ SuccessIsReal'
  <2>1. \A q \in Attempt : /\ Unused(q) => Unused(q)'
                           /\ runs[q] = 1 => runs'[q] = 1
    BY <1>0, <1>2, <1>3, <1>4 DEF Unused, bridgeVars
  <2> QED
    BY <1>0, <2>1, SameClients DEF bridgeVars
<1> QED
  BY <1>5, <1>6, <1>7, <1>8, <1>9

--------------------------------------------------------------------------------
(* The steps of the daemon *)

\* Only one daemon is up.
LEMMA Alone ==
  ASSUME TransportInv, NEW d \in Daemon, NEW b \in Daemon,
         proc[d] # "down", proc[b] # "down"
  PROVE  b = d
BY DEF TransportInv, LifetimeLock

\* While a daemon starts, no thread is up.
LEMMA NoThreads ==
  ASSUME TransportInv, NEW d \in Daemon,
         proc[d] \in {"bound", "recovered", "purged"} \/ lock = NoDaemon,
         NEW w \in Worker
  PROVE  worker[w].pc = "off"
<1>1. w[1] \in Daemon
  BY DEF Worker
<1>2. proc[w[1]] \notin Working
  BY <1>1, Alone, TransportAssumption DEF TransportInv, LifetimeLock, Working
<1> QED
  BY <1>2 DEF TransportInv, ThreadOK

\* A daemon moves on, and neither its threads nor the clients notice.
LEMMA PhaseMove ==
  ASSUME TransportInv, NEW d \in Daemon, NEW p \in Phase \ {"down"},
         UNCHANGED <<requests, worker, conn, client, runs, exits>>,
         daemon_id' \in Daemon \cup {NoDaemon}, ready' \in BOOLEAN, fresh' \in BOOLEAN,
         files' \in BOOLEAN,
         proc' = [proc EXCEPT ![d] = p],
         \/ proc[d] # "down" /\ lock' = lock
         \/ lock = NoDaemon /\ lock' = d,
         proc[d] \in Working => p \in Working,
         p \in {"closed", "unlinked", "draining"} => exits < MaxExits
  PROVE  TransportInv'
<1> USE DEF TransportInv
<1>1. TypeOK'
  BY DEF TypeOK
<1>2. LifetimeLock'
  BY Alone, TransportAssumption DEF LifetimeLock, TypeOK
<1>3. ExitsLeft'
  BY DEF ExitsLeft, TypeOK
<1>4. (\A w \in Worker : ThreadOK(w))' /\ OneThreadPerItem'
  BY SameThreads DEF TypeOK
<1>5. (\A r \in Attempt : RequestOK(r) /\ ConnOK(r))'
  BY SameRows
<1>6. (\A c \in Command : ClientOK(c))' /\ SuccessIsReal'
  BY SameClients DEF Unused
<1> QED
  BY <1>1, <1>2, <1>3, <1>4, <1>5, <1>6

LEMMA StepBind ==
  ASSUME TransportInv, NEW d \in Daemon, Bind(d) PROVE TransportInv'
BY PhaseMove DEF Bind, Phase, Working, bridgeVars, TransportInv, TypeOK

LEMMA StepMarkReady ==
  ASSUME TransportInv, NEW d \in Daemon, MarkReady(d) PROVE TransportInv'
BY PhaseMove DEF MarkReady, mark_ready, Phase, Working, TransportInv, TypeOK

LEMMA StepUnlink ==
  ASSUME TransportInv, NEW d \in Daemon, Unlink(d) PROVE TransportInv'
BY PhaseMove DEF Unlink, Phase, Working, bridgeVars, TransportInv, TypeOK, ExitsLeft

LEMMA StepDrain ==
  ASSUME TransportInv, NEW d \in Daemon, Drain(d) PROVE TransportInv'
BY PhaseMove DEF Drain, mark_stopped, Phase, Working, TransportInv, TypeOK, ExitsLeft

\* Only the mailbox's heartbeat or the runtime files change.
LEMMA SignMove ==
  ASSUME TransportInv, UNCHANGED <<requests, daemon_id, lock, proc, worker, conn, client, runs, exits>>,
         ready' = ready, fresh' \in BOOLEAN, files' \in BOOLEAN
  PROVE  TransportInv'
<1> USE DEF TransportInv
<1>1. TypeOK'
  BY DEF TypeOK
<1>2. LifetimeLock' /\ ExitsLeft'
  BY DEF LifetimeLock, ExitsLeft
<1>3. (\A w \in Worker : ThreadOK(w))' /\ OneThreadPerItem'
  BY SameThreads
<1>4. (\A r \in Attempt : RequestOK(r) /\ ConnOK(r))'
  BY SameRows
<1>5. (\A c \in Command : ClientOK(c))' /\ SuccessIsReal'
  BY SameClients DEF Unused
<1> QED
  BY <1>1, <1>2, <1>3, <1>4, <1>5

LEMMA StepHeartbeat ==
  ASSUME TransportInv, NEW d \in Daemon, Heartbeat(d) PROVE TransportInv'
BY SignMove DEF Heartbeat, heartbeat, daemonVars, TransportInv, TypeOK

LEMMA StepHeartbeatAges ==
  ASSUME TransportInv, HeartbeatAges PROVE TransportInv'
BY SignMove DEF HeartbeatAges, daemonVars, TransportInv, TypeOK

LEMMA StepTidy ==
  ASSUME TransportInv, Tidy PROVE TransportInv'
BY SignMove DEF Tidy, bridgeVars, TransportInv, TypeOK

\* A starting daemon writes rows nobody is working on.
LEMMA TableMove ==
  ASSUME TransportInv, NEW d \in Daemon, NEW p \in {"recovered", "purged"},
         proc[d] \in {"bound", "recovered"}, proc' = [proc EXCEPT ![d] = p],
         UNCHANGED <<hostVars, lock, files, worker, conn, client, runs, exits>>,
         requests' \in [Attempt -> Row],
         \A r \in Attempt : /\ requests[r].status = "none" <=> requests'[r].status = "none"
                            /\ RequestOK(r)'
  PROVE  TransportInv'
<1> USE DEF TransportInv
<1>1. TypeOK'
  BY DEF TypeOK, hostVars, Phase
<1>2. LifetimeLock'
  BY Alone DEF LifetimeLock, TypeOK
<1>3. ExitsLeft'
  BY DEF ExitsLeft, TypeOK
<1>4. (\A w \in Worker : ThreadOK(w))' /\ OneThreadPerItem'
  BY NoThreads DEF ThreadOK, OneThreadPerItem, Busy
<1>5. ASSUME NEW r \in Attempt PROVE RequestOK(r)' /\ ConnOK(r)'
  BY DEF ConnOK
<1>6. (\A c \in Command : ClientOK(c))' /\ SuccessIsReal'
  BY SameClients DEF Unused
<1> QED
  BY <1>1, <1>2, <1>3, <1>4, <1>5, <1>6

LEMMA StepRecover ==
  ASSUME TransportInv, NEW d \in Daemon, Recover(d) PROVE TransportInv'
<1> USE DEF TransportInv
<1>1. UNCHANGED <<hostVars, lock, files, worker, conn, client, runs, exits>>
  BY DEF Recover
<1>2. \A r \in Attempt : requests'[r] =
        IF requests[r].status = "processing"
        THEN [requests[r] EXCEPT !.status = "error", !.answer = "error"]
        ELSE requests[r]
  BY DEF Recover, recover_stale, With
<1>3. requests' \in [Attempt -> Row]
  BY DEF TypeOK, Row, Recover, recover_stale
<1>4. ASSUME NEW r \in Attempt
      PROVE  /\ requests[r].status = "none" <=> requests'[r].status = "none"
             /\ RequestOK(r)'
  <2>1. requests[r] \in Row /\ runs'[r] = runs[r]
    BY <1>1 DEF TypeOK
  <2>2. CASE requests[r].status = "processing"
    <3>1. requests'[r].status = "error" /\ requests'[r].answer = "error"
      BY <1>2, <2>1, <2>2 DEF Row
    <3> QED
      BY <2>1, <2>2, <3>1 DEF RequestOK
  <2>3. CASE requests[r].status # "processing"
    BY <1>2, <2>1, <2>3 DEF RequestOK
  <2> QED
    BY <2>2, <2>3
<1> QED
  BY <1>1, <1>3, <1>4, TableMove DEF Recover

LEMMA StepPurge ==
  ASSUME TransportInv, NEW d \in Daemon, Purge(d) PROVE TransportInv'
<1> USE DEF TransportInv
<1>0. PICK Old \in SUBSET Settled : purge(Old)
  BY DEF Purge
<1>1. UNCHANGED <<hostVars, lock, files, worker, conn, client, runs, exits>>
  BY DEF Purge
<1>2. \A r \in Attempt : requests'[r] =
        IF r \in Old \cap Settled THEN [requests[r] EXCEPT !.status = "deleted"] ELSE requests[r]
  BY <1>0 DEF purge
<1>3. requests' \in [Attempt -> Row]
  BY <1>0 DEF TypeOK, Row, purge
<1>4. ASSUME NEW r \in Attempt
      PROVE  /\ requests[r].status = "none" <=> requests'[r].status = "none"
             /\ RequestOK(r)'
  <2>1. requests[r] \in Row /\ runs'[r] = runs[r]
    BY <1>1 DEF TypeOK
  <2>2. CASE r \in Old \cap Settled
    <3>1. requests[r].status \in {"done", "error"}
      BY <2>2 DEF Settled, With
    <3>2. requests'[r].status = "deleted" /\ requests'[r].answer = requests[r].answer
      BY <1>2, <2>1, <2>2 DEF Row
    <3> QED
      BY <2>1, <3>1, <3>2 DEF RequestOK
  <2>3. CASE r \notin Old \cap Settled
    BY <1>2, <2>1, <2>3 DEF RequestOK
  <2> QED
    BY <2>2, <2>3
<1> QED
  BY <1>1, <1>3, <1>4, TableMove DEF Purge

LEMMA StepStartWorkers ==
  ASSUME TransportInv, NEW d \in Daemon, StartWorkers(d) PROVE TransportInv'
<1> USE DEF TransportInv
<1> DEFINE y == [Idle EXCEPT !.pc = "loop"]
<1>0. y \in Thread /\ y.pc = "loop"
  BY DEF Idle, Thread, Result
<1>1. UNCHANGED <<bridgeVars, lock, files, conn, client, runs, exits>>
  BY DEF StartWorkers
<1>2. \A w \in Worker : worker'[w] = IF w[1] = d THEN y ELSE worker[w]
  BY DEF StartWorkers
<1> HIDE DEF y
<1>3. TypeOK'
  <2>1. worker' \in [Worker -> Thread]
    BY <1>0, <1>2 DEF StartWorkers, TypeOK
  <2>2. proc' \in [Daemon -> Phase]
    BY DEF StartWorkers, TypeOK, Phase
  <2> QED
    BY <1>1, <2>1, <2>2 DEF TypeOK, bridgeVars
<1>4. LifetimeLock' /\ ExitsLeft'
  BY <1>1 DEF StartWorkers, LifetimeLock, ExitsLeft, TypeOK
<1>5. \A w \in Worker : worker'[w].pc \in {"off", "loop"} /\ (worker'[w].pc = "loop" => w[1] = d)
  BY <1>0, <1>2, NoThreads DEF StartWorkers
<1>6. (\A w \in Worker : ThreadOK(w))' /\ OneThreadPerItem'
  <2>1. proc'[d] \in Working
    BY DEF StartWorkers, TypeOK, Working
  <2> QED
    BY <1>5, <2>1 DEF ThreadOK, OneThreadPerItem, Busy
<1>7. (\A r \in Attempt : RequestOK(r) /\ ConnOK(r))'
  BY <1>1, SameRows DEF bridgeVars
<1>8. (\A c \in Command : ClientOK(c))' /\ SuccessIsReal'
  BY <1>1, SameClients DEF Unused, bridgeVars
<1> QED
  BY <1>3, <1>4, <1>6, <1>7, <1>8

\* Hanging up makes up no answer.
LEMMA HungUp ==
  ASSUME TypeOK, NEW d \in Daemon, NEW served \in BOOLEAN, Hangup(d, served)
  PROVE  /\ conn' \in [Attempt -> Conn]
         /\ \A r \in Attempt :
              \/ conn'[r] = conn[r]
              \/ conn[r].st \in {"backlog", "accepted"} /\ conn'[r].st \in {"reset", "eof"}
<1>1. \A r \in Attempt, s \in {"reset", "eof"} :
        /\ [conn[r] EXCEPT !.st = s] \in Conn
        /\ [conn[r] EXCEPT !.st = s].st = s
  BY DEF TypeOK, Conn
<1>2. \A r \in Attempt : conn[r] \in Conn
  BY DEF TypeOK
<1> QED
  BY <1>1, <1>2 DEF Hangup

\* Closing connections harms neither rows nor clients.
LEMMA HungUpIsFine ==
  ASSUME TransportInv, UNCHANGED <<requests, client, runs>>,
         \A r \in Attempt :
           \/ conn'[r] = conn[r]
           \/ conn[r].st \in {"backlog", "accepted"} /\ conn'[r].st \in {"reset", "eof"}
  PROVE  /\ (\A r \in Attempt : RequestOK(r) /\ ConnOK(r))'
         /\ (\A c \in Command : ClientOK(c))'
         /\ SuccessIsReal'
<1>1. (\A r \in Attempt : RequestOK(r) /\ ConnOK(r))'
  BY DEF TransportInv, RequestOK, ConnOK
<1>2. \A r \in Attempt : Unused(r) => Unused(r)'
  BY DEF Unused
<1> QED
  BY <1>1, <1>2, SameClients

LEMMA StepClose ==
  ASSUME TransportInv, NEW d \in Daemon, Close(d) PROVE TransportInv'
<1> USE DEF TransportInv
<1>1. UNCHANGED <<bridgeVars, lock, files, worker, client, runs, exits>>
  BY DEF Close
<1>2. /\ conn' \in [Attempt -> Conn]
      /\ \A r \in Attempt :
           \/ conn'[r] = conn[r]
           \/ conn[r].st \in {"backlog", "accepted"} /\ conn'[r].st \in {"reset", "eof"}
  BY HungUp DEF Close
<1>3. TypeOK'
  BY <1>1, <1>2 DEF Close, TypeOK, Phase, bridgeVars
<1>4. LifetimeLock' /\ ExitsLeft'
  BY <1>1 DEF Close, LifetimeLock, ExitsLeft, TypeOK
<1>5. (\A w \in Worker : ThreadOK(w))' /\ OneThreadPerItem'
  BY <1>1, SameThreads DEF Close, TypeOK, Working, bridgeVars
<1> QED
  BY <1>1, <1>2, <1>3, <1>4, <1>5, HungUpIsFine DEF bridgeVars

\* A daemon is gone, and its threads with it.
LEMMA GoneIsFine ==
  ASSUME TransportInv, NEW d \in Daemon, proc[d] # "down", exits < MaxExits, Gone(d),
         UNCHANGED <<bridgeVars, client, runs>>, files' = files,
         conn' \in [Attempt -> Conn]
  PROVE  /\ TypeOK'
         /\ LifetimeLock'
         /\ ExitsLeft'
         /\ (\A w \in Worker : ThreadOK(w))'
         /\ OneThreadPerItem'
<1> USE DEF TransportInv
<1>1. \A w \in Worker : worker'[w] = IF w[1] = d THEN Idle ELSE worker[w]
  BY DEF Gone
<1>2. Idle \in Thread /\ Idle.pc = "off"
  BY DEF Idle, Thread, Result
<1>3. TypeOK'
  <2>1. worker' \in [Worker -> Thread]
    BY <1>2 DEF Gone, TypeOK
  <2>2. exits' \in 0..MaxExits
    BY TransportAssumption DEF Gone, TypeOK
  <2>3. proc' \in [Daemon -> Phase] /\ lock' \in Daemon \cup {NoDaemon}
    BY DEF Gone, TypeOK, Phase
  <2> QED
    BY <2>1, <2>2, <2>3 DEF TypeOK, bridgeVars
<1>4. \A b \in Daemon : proc'[b] = "down"
  BY Alone DEF Gone, TypeOK
<1>5. LifetimeLock' /\ ExitsLeft'
  BY <1>4 DEF LifetimeLock, ExitsLeft
<1>6. \A w \in Worker : worker'[w].pc = "off"
  <2> SUFFICES ASSUME NEW w \in Worker PROVE worker'[w].pc = "off"
    OBVIOUS
  <2>1. CASE w[1] = d
    BY <1>1, <1>2, <2>1
  <2>2. CASE w[1] # d
    <3>1. w[1] \in Daemon
      BY DEF Worker
    <3>2. proc[w[1]] = "down"
      BY <2>2, <3>1, Alone
    <3>3. worker[w].pc = "off"
      BY <3>2 DEF ThreadOK, Working
    <3> QED
      BY <1>1, <2>2, <3>3
  <2> QED
    BY <2>1, <2>2
<1>7. (\A w \in Worker : ThreadOK(w))' /\ OneThreadPerItem'
  BY <1>6 DEF ThreadOK, OneThreadPerItem, Busy
<1> QED
  BY <1>3, <1>5, <1>7

LEMMA StepExit ==
  ASSUME TransportInv, NEW d \in Daemon, Exit(d) PROVE TransportInv'
<1>1. proc[d] # "down" /\ exits < MaxExits
  BY DEF Exit, TransportInv, ExitsLeft
<1>2. UNCHANGED <<bridgeVars, files, conn, client, runs>> /\ Gone(d)
  BY DEF Exit
<1>3. conn' \in [Attempt -> Conn]
  BY <1>2 DEF TransportInv, TypeOK
<1>4. /\ (\A r \in Attempt : RequestOK(r) /\ ConnOK(r))'
      /\ (\A c \in Command : ClientOK(c))'
      /\ SuccessIsReal'
  BY <1>2, HungUpIsFine DEF bridgeVars
<1> QED
  BY <1>1, <1>2, <1>3, <1>4, GoneIsFine DEF TransportInv

LEMMA StepDie ==
  ASSUME TransportInv, NEW d \in Daemon, Die(d) PROVE TransportInv'
<1>1. proc[d] # "down" /\ exits < MaxExits /\ Gone(d) /\ Hangup(d, TRUE)
  BY DEF Die
<1>2. UNCHANGED <<bridgeVars, files, client, runs>>
  BY DEF Die
<1>3. /\ conn' \in [Attempt -> Conn]
      /\ \A r \in Attempt :
           \/ conn'[r] = conn[r]
           \/ conn[r].st \in {"backlog", "accepted"} /\ conn'[r].st \in {"reset", "eof"}
  BY <1>1, HungUp DEF TransportInv
<1>4. /\ (\A r \in Attempt : RequestOK(r) /\ ConnOK(r))'
      /\ (\A c \in Command : ClientOK(c))'
      /\ SuccessIsReal'
  BY <1>2, <1>3, HungUpIsFine DEF bridgeVars
<1> QED
  BY <1>1, <1>2, <1>3, <1>4, GoneIsFine DEF TransportInv

LEMMA DaemonKeepsInv ==
  ASSUME TransportInv, NEW d \in Daemon, DaemonStep(d) PROVE TransportInv'
BY StepBind, StepRecover, StepPurge, StepStartWorkers, StepMarkReady, StepHeartbeat,
   StepClose, StepUnlink, StepDrain, StepExit, StepDie DEF DaemonStep

--------------------------------------------------------------------------------
(* The steps of a mailbox thread *)

\* A thread moves to y; the other threads, the sockets and the clients stay.
\* It may take the item that is queued, or leave the one it has.
LEMMA ThreadMove ==
  ASSUME TransportInv, NEW w \in Worker, NEW y \in Thread,
         UNCHANGED <<hostVars, daemonVars, conn, client>>,
         worker' = [worker EXCEPT ![w] = y], worker[w].pc # "off",
         ThreadOK(w)',
         requests' \in [Attempt -> Row], runs' \in [Attempt -> Nat],
         y.pc \in {"run", "complete"} =>
           \A v \in Worker : v # w /\ Busy(v) => worker[v].item # y.item,
         \A v \in Worker : v # w /\ Busy(v) =>
           /\ requests'[worker[v].item] = requests[worker[v].item]
           /\ runs'[worker[v].item] = runs[worker[v].item],
         \A r \in Attempt :
           /\ RequestOK(r)'
           /\ \/ requests'[r] = requests[r] /\ runs'[r] = runs[r]
              \/ /\ requests[r].status # "none" /\ requests'[r].status # "none"
                 /\ runs[r] = 1 => runs'[r] = 1
  PROVE  TransportInv'
<1> USE DEF TransportInv
<1>1. TypeOK'
  <2>1. worker' \in [Worker -> Thread]
    BY DEF TypeOK
  <2> QED
    BY <2>1 DEF TypeOK, hostVars, daemonVars
<1>2. LifetimeLock' /\ ExitsLeft'
  BY DEF LifetimeLock, ExitsLeft, daemonVars
<1>3. worker'[w] = y /\ \A v \in Worker : v # w => worker'[v] = worker[v]
  BY DEF TypeOK
<1>4. (\A v \in Worker : ThreadOK(v))'
  <2> SUFFICES ASSUME NEW v \in Worker, v # w PROVE ThreadOK(v)'
    OBVIOUS
  <2> QED
    BY <1>3 DEF ThreadOK, Busy, daemonVars
<1>5. OneThreadPerItem'
  BY <1>3 DEF OneThreadPerItem, Busy
<1>6. ASSUME NEW r \in Attempt PROVE RequestOK(r)' /\ ConnOK(r)'
  BY DEF ConnOK
<1>7. (\A c \in Command : ClientOK(c))' /\ SuccessIsReal'
  <2>1. \A r \in Attempt : /\ Unused(r) => Unused(r)'
                           /\ requests[r].status # "none" => requests'[r].status # "none"
                           /\ runs[r] = 1 => runs'[r] = 1
    BY DEF Unused
  <2> QED
    BY <2>1, SameClients
<1> QED
  BY <1>1, <1>2, <1>4, <1>5, <1>6, <1>7

\* A thread that only looks.
LEMMA ThreadLooks ==
  ASSUME TransportInv, NEW w \in Worker, NEW y \in Thread,
         UNCHANGED <<bridgeVars, daemonVars, conn, client, runs>>,
         worker' = [worker EXCEPT ![w] = y], worker[w].pc # "off",
         y.pc \in {"off", "loop", "look", "claim"},
         y.pc = "claim" => y.item \in Attempt
  PROVE  TransportInv'
<1> USE DEF TransportInv
<1>1. worker'[w] = y
  BY DEF TypeOK
<1>2. ThreadOK(w)'
  BY <1>1 DEF ThreadOK, Busy, daemonVars
<1>3. requests' \in [Attempt -> Row] /\ runs' \in [Attempt -> Nat]
  BY DEF TypeOK, bridgeVars
<1>4. \A r \in Attempt : RequestOK(r)'
  BY DEF RequestOK, bridgeVars
<1>5. UNCHANGED <<requests, runs, hostVars>>
  BY DEF bridgeVars, hostVars
<1> HIDE DEF TransportInv
<1> QED
  BY <1>2, <1>3, <1>4, <1>5, ThreadMove

LEMMA StepLoopHead ==
  ASSUME TransportInv, NEW w \in Worker, LoopHead(w) PROVE TransportInv'
<1> DEFINE p == IF proc[w[1]] = "draining" THEN "off" ELSE "look"
           y == [worker[w] EXCEPT !.pc = p]
<1>1. worker \in [Worker -> Thread] /\ worker[w] \in Thread
  BY DEF TransportInv, TypeOK
<1>2. y \in Thread /\ y.pc = p
  BY <1>1 DEF Thread
<1>3. worker' = [worker EXCEPT ![w] = y] /\ worker[w].pc # "off"
  BY <1>1 DEF LoopHead, Goto
<1>4. UNCHANGED <<bridgeVars, daemonVars, conn, client, runs>>
  BY DEF LoopHead
<1> HIDE DEF y
<1> QED
  BY <1>2, <1>3, <1>4, ThreadLooks

LEMMA StepLook ==
  ASSUME TransportInv, NEW w \in Worker, Look(w) PROVE TransportInv'
<1>1. worker \in [Worker -> Thread] /\ worker[w] \in Thread /\ worker[w].pc # "off"
  BY DEF TransportInv, TypeOK, Look
<1>2. UNCHANGED <<bridgeVars, daemonVars, conn, client, runs>>
  BY DEF Look
<1>3. CASE worker' = [worker EXCEPT ![w].pc = "loop"]
  <2> DEFINE y == [worker[w] EXCEPT !.pc = "loop"]
  <2>1. y \in Thread /\ y.pc = "loop"
    BY <1>1 DEF Thread
  <2>2. worker' = [worker EXCEPT ![w] = y]
    BY <1>1, <1>3
  <2> HIDE DEF y
  <2> QED
    BY <1>1, <1>2, <2>1, <2>2, ThreadLooks
<1>4. ASSUME NEW r \in Oldest, worker' = [worker EXCEPT ![w].pc = "claim", ![w].item = r]
      PROVE  TransportInv'
  <2> DEFINE y == [worker[w] EXCEPT !.pc = "claim", !.item = r]
  <2>0. r \in Attempt
    BY DEF Oldest, With
  <2>1. y \in Thread /\ y.pc = "claim" /\ y.item = r
    BY <1>1, <2>0 DEF Thread
  <2>2. worker' = [worker EXCEPT ![w] = y]
    BY <1>1, <1>4
  <2> HIDE DEF y
  <2> QED
    BY <1>1, <1>2, <2>0, <2>1, <2>2, ThreadLooks
<1> QED
  BY <1>3, <1>4 DEF Look

LEMMA ResetThread ==
  /\ [Idle EXCEPT !.pc = "loop"] \in Thread
  /\ [Idle EXCEPT !.pc = "loop"].pc = "loop"
BY DEF Idle, Thread, Result

LEMMA StepClaim ==
  ASSUME TransportInv, NEW w \in Worker, Claim(w) PROVE TransportInv'
<1> DEFINE r == worker[w].item
<1>1. /\ worker \in [Worker -> Thread]
      /\ worker[w] \in Thread
      /\ worker[w].pc = "claim"
      /\ r \in Attempt
      /\ requests \in [Attempt -> Row]
      /\ requests[r] \in Row
      /\ RequestOK(r)
      /\ ThreadOK(w)
  BY DEF TransportInv, TypeOK, Claim, ThreadOK
<1>2. UNCHANGED <<hostVars, daemonVars, conn, client, runs>>
  BY DEF Claim
<1>3. CASE ~Claimable(r)
  <2>1. UNCHANGED requests /\ worker' = [worker EXCEPT ![w] = [Idle EXCEPT !.pc = "loop"]]
    BY <1>3 DEF Claim
  <2>2. UNCHANGED bridgeVars
    BY <1>2, <2>1 DEF hostVars, bridgeVars
  <2> QED
    BY <1>1, <1>2, <2>1, <2>2, ResetThread, ThreadLooks
<1>4. CASE Claimable(r)
  <2> DEFINE y == [worker[w] EXCEPT !.pc = "run"]
  <2>1. y \in Thread /\ y.pc = "run" /\ y.item = r
    BY <1>1 DEF Thread
  <2>2. worker' = [worker EXCEPT ![w] = y]
    BY <1>1, <1>4 DEF Claim, Goto
  <2>3. requests[r].status = "queued"
    BY <1>4 DEF Claimable, With
  <2>4. /\ requests' \in [Attempt -> Row]
        /\ requests'[r].status = "processing" /\ requests'[r].answer = requests[r].answer
        /\ \A q \in Attempt : q # r => requests'[q] = requests[q]
    BY <1>1, <1>4 DEF Claim, claim, Row
  <2>5. runs' \in [Attempt -> Nat] /\ runs' = runs
    BY <1>2 DEF TransportInv, TypeOK
  <2> HIDE DEF y, r
  <2>6. worker'[w] = y
    BY <1>1, <2>2
  <2>7. ThreadOK(w)'
    BY <1>1, <1>2, <2>1, <2>3, <2>4, <2>5, <2>6 DEF ThreadOK, Busy, RequestOK, daemonVars
  <2>8. ASSUME NEW v \in Worker, v # w, Busy(v)
        PROVE  /\ worker[v].item # r
               /\ requests'[worker[v].item] = requests[worker[v].item]
    <3>1. worker[v].item \in Attempt /\ requests[worker[v].item].status = "processing"
      BY <2>8 DEF TransportInv, ThreadOK, Busy
    <3> QED
      BY <2>3, <2>4, <3>1
  <2>9. ASSUME NEW q \in Attempt
        PROVE  /\ RequestOK(q)'
               /\ \/ requests'[q] = requests[q] /\ runs'[q] = runs[q]
                  \/ /\ requests[q].status # "none" /\ requests'[q].status # "none"
                     /\ runs[q] = 1 => runs'[q] = 1
    <3>1. CASE q = r
      BY <1>1, <2>3, <2>4, <2>5, <3>1 DEF RequestOK
    <3>2. CASE q # r
      BY <2>4, <2>5, <3>2 DEF TransportInv, RequestOK
    <3> QED
      BY <3>1, <3>2
  <2> QED
    BY <1>1, <1>2, <2>1, <2>2, <2>4, <2>5, <2>7, <2>8, <2>9, ThreadMove
<1> QED
  BY <1>3, <1>4

LEMMA StepRunItem ==
  ASSUME TransportInv, NEW w \in Worker, RunItem(w) PROVE TransportInv'
<1> DEFINE r == worker[w].item
<1>0. PICK u \in Result :
        /\ Execute(r, u)
        /\ worker' = [worker EXCEPT ![w].pc = "complete", ![w].result = u]
  BY DEF RunItem
<1> DEFINE y == [worker[w] EXCEPT !.pc = "complete", !.result = u]
<1>1. /\ worker \in [Worker -> Thread]
      /\ worker[w] \in Thread
      /\ worker[w].pc = "run"
      /\ r \in Attempt
      /\ requests \in [Attempt -> Row]
      /\ requests[r].status = "processing"
      /\ runs[r] = 0
      /\ RequestOK(r)
      /\ ThreadOK(w)
  BY DEF TransportInv, TypeOK, RunItem, ThreadOK, Busy
<1>2. UNCHANGED <<bridgeVars, daemonVars, conn, client>>
  BY DEF RunItem
<1>3. /\ runs' \in [Attempt -> Nat]
      /\ runs'[r] \in {0, 1}
      /\ u = "ok" => runs'[r] = 1
      /\ \A q \in Attempt : q # r => runs'[q] = runs[q]
  BY <1>0, <1>1, Executed DEF TransportInv
<1>4. y \in Thread /\ y.pc = "complete" /\ y.item = r /\ y.result = u
  BY <1>1 DEF Thread
<1>5. worker' = [worker EXCEPT ![w] = y]
  BY <1>0, <1>1
<1> HIDE DEF y, r
<1>6. worker'[w] = y
  BY <1>1, <1>5
<1>7. UNCHANGED <<requests, hostVars>>
  BY <1>2 DEF bridgeVars, hostVars
<1>8. ThreadOK(w)'
  BY <1>1, <1>2, <1>3, <1>4, <1>6, <1>7 DEF ThreadOK, Busy, daemonVars
<1>9. ASSUME NEW v \in Worker, v # w, Busy(v)
      PROVE  worker[v].item # r /\ runs'[worker[v].item] = runs[worker[v].item]
  <2>1. worker[v].item \in Attempt /\ worker[v].item # r
    BY <1>1, <1>9 DEF TransportInv, OneThreadPerItem, ThreadOK, Busy, r
  <2> QED
    BY <1>3, <2>1
<1>10. ASSUME NEW q \in Attempt
       PROVE  /\ RequestOK(q)'
              /\ \/ requests'[q] = requests[q] /\ runs'[q] = runs[q]
                 \/ /\ requests[q].status # "none" /\ requests'[q].status # "none"
                    /\ runs[q] = 1 => runs'[q] = 1
  <2>1. CASE q = r
    BY <1>1, <1>3, <1>7, <2>1 DEF RequestOK
  <2>2. CASE q # r
    BY <1>3, <1>7, <2>2 DEF TransportInv, RequestOK
  <2> QED
    BY <2>1, <2>2
<1>11. requests' \in [Attempt -> Row]
  BY <1>1, <1>7
<1> QED
  BY <1>1, <1>2, <1>3, <1>4, <1>5, <1>7, <1>8, <1>9, <1>10, <1>11, ThreadMove

LEMMA StepComplete ==
  ASSUME TransportInv, NEW w \in Worker, Complete(w) PROVE TransportInv'
<1> DEFINE r == worker[w].item
           u == worker[w].result
           y == [Idle EXCEPT !.pc = "loop"]
<1>1. /\ worker \in [Worker -> Thread]
      /\ worker[w] \in Thread
      /\ worker[w].pc = "complete"
      /\ r \in Attempt
      /\ u \in Result
      /\ requests \in [Attempt -> Row]
      /\ requests[r] \in Row
      /\ requests[r].status = "processing"
      /\ u = "ok" => runs[r] = 1
      /\ RequestOK(r)
      /\ ThreadOK(w)
  BY DEF TransportInv, TypeOK, Complete, ThreadOK, Busy, Thread
<1>2. UNCHANGED <<hostVars, daemonVars, conn, client, runs>> /\ complete(r, u)
  BY DEF Complete
<1>3. worker' = [worker EXCEPT ![w] = y]
  BY DEF Complete
<1>4. y \in Thread /\ y.pc = "loop"
  BY ResetThread
<1>5. r \in Posted \ With("deleted")
  BY <1>1 DEF Posted, With
<1>6. /\ requests' \in [Attempt -> Row]
      /\ requests'[r].status = IF u = "ok" THEN "done" ELSE "error"
      /\ requests'[r].answer = u
      /\ \A q \in Attempt : q # r => requests'[q] = requests[q]
  BY <1>1, <1>2, <1>5 DEF complete, Row, Result
<1>7. runs' \in [Attempt -> Nat] /\ runs' = runs
  BY <1>2 DEF TransportInv, TypeOK
<1> HIDE DEF y, r, u
<1>8. worker'[w] = y
  BY <1>1, <1>3
<1>9. ThreadOK(w)'
  BY <1>1, <1>2, <1>4, <1>8 DEF ThreadOK, Busy, daemonVars
<1>10. ASSUME NEW v \in Worker, v # w, Busy(v)
       PROVE  requests'[worker[v].item] = requests[worker[v].item]
  <2>1. worker[v].item \in Attempt /\ worker[v].item # r
    BY <1>1, <1>10 DEF TransportInv, OneThreadPerItem, ThreadOK, Busy, r
  <2> QED
    BY <1>6, <2>1
<1>11. ASSUME NEW q \in Attempt
       PROVE  /\ RequestOK(q)'
              /\ \/ requests'[q] = requests[q] /\ runs'[q] = runs[q]
                 \/ /\ requests[q].status # "none" /\ requests'[q].status # "none"
                    /\ runs[q] = 1 => runs'[q] = 1
  <2>1. CASE q = r
    BY <1>1, <1>6, <1>7, <2>1 DEF RequestOK, Result
  <2>2. CASE q # r
    BY <1>6, <1>7, <2>2 DEF TransportInv, RequestOK
  <2> QED
    BY <2>1, <2>2
<1> QED
  BY <1>1, <1>2, <1>3, <1>4, <1>6, <1>7, <1>9, <1>10, <1>11, ThreadMove

LEMMA WorkerKeepsInv ==
  ASSUME TransportInv, NEW w \in Worker, WorkerStep(w) PROVE TransportInv'
BY StepLoopHead, StepLook, StepClaim, StepRunItem, StepComplete DEF WorkerStep

--------------------------------------------------------------------------------
(* The theorems *)

LEMMA Stutter ==
  ASSUME TransportInv, UNCHANGED vars PROVE TransportInv'
BY SignMove DEF vars, bridgeVars, daemonVars, TransportInv, TypeOK

LEMMA NextKeepsInv ==
  ASSUME TransportInv, [Next]_vars PROVE TransportInv'
BY ClientKeepsInv, StepAccept, StepServe, DaemonKeepsInv, WorkerKeepsInv,
   StepHeartbeatAges, StepTidy, Stutter DEF Next, ConnStep

\* Whatever carries a command and whatever dies, rows, threads, connections and
\* clients agree about what has been executed.
THEOREM Inductive == Spec => []TransportInv
<1>1. Init => TransportInv
  BY Initially
<1>2. TransportInv /\ [Next]_vars => TransportInv'
  BY NextKeepsInv
<1> QED
  BY <1>1, <1>2, PTL DEF Spec

\* The type invariant of Transport.
THEOREM TypeCorrect == Spec => []TypeOK
<1>1. TransportInv => TypeOK
  BY DEF TransportInv
<1> QED
  BY <1>1, Inductive, PTL

\* A command that reports success took effect.
THEOREM SuccessIsNeverInvented == Spec => []SuccessIsReal
<1>1. TransportInv => SuccessIsReal
  BY DEF TransportInv
<1> QED
  BY <1>1, Inductive, PTL

--------------------------------------------------------------------------------
(* The refinement *)

\* Only the status of some rows changes.
LEMMA NothingSaid ==
  ASSUME \A r \in Attempt : requests'[r].answer = requests[r].answer,
         UNCHANGED runs
  PROVE  UNCHANGED <<runs, verdictOf>>
BY DEF verdictOf

\* The effect of an attempt about which nothing was said.
LEMMA EffectIsRun ==
  ASSUME TypeOK, NEW r \in Attempt, NEW v, Execute(r, v), runs[r] = 0,
         requests[r].answer = "none", UNCHANGED requests
  PROVE  Once!Next \/ UNCHANGED <<runs, verdictOf>>
<1>1. PICK e \in {0, 1} : runs' = [runs EXCEPT ![r] = @ + e]
  BY DEF Execute
<1>2. UNCHANGED verdictOf
  BY DEF verdictOf
<1>3. CASE e = 0
  <2>1. runs' = runs
    BY <1>1, <1>3 DEF TypeOK
  <2> QED
    BY <1>2, <2>1
<1>4. CASE e = 1
  <2>1. runs' = [runs EXCEPT ![r] = 1]
    BY <1>1, <1>4
  <2>2. verdictOf[r] = "none"
    BY DEF verdictOf
  <2>3. Once!Run(r)
    BY <1>2, <2>1, <2>2 DEF Once!Run
  <2> QED
    BY <2>3 DEF Once!Next
<1> QED
  BY <1>3, <1>4

\* One row gets its answer.
LEMMA AnswerIsRecord ==
  ASSUME NEW r \in Attempt, NEW v \in {"ok", "error", "withdrawn"}, UNCHANGED runs,
         requests[r].answer = "none", requests'[r].answer = v,
         \A q \in Attempt : q # r => requests'[q].answer = requests[q].answer,
         v = "ok" => runs[r] = 1, v = "withdrawn" => runs[r] = 0
  PROVE  Once!Next
<1>1. verdictOf' = [verdictOf EXCEPT ![r] = v] /\ verdictOf[r] = "none"
  BY DEF verdictOf
<1>2. Once!Record(r, v)
  BY <1>1 DEF Once!Record
<1> QED
  BY <1>2 DEF Once!Next

LEMMA DaemonMaps ==
  ASSUME TransportInv, NEW d \in Daemon, DaemonStep(d)
  PROVE  Once!Next \/ UNCHANGED <<runs, verdictOf>>
<1>1. CASE Recover(d)
  <2> DEFINE R == With("processing")
  <2>1. /\ UNCHANGED runs
        /\ \A r \in Attempt : requests[r] \in Row /\ RequestOK(r)
        /\ \A r \in Attempt : requests'[r] =
             IF r \in R THEN [requests[r] EXCEPT !.status = "error", !.answer = "error"]
             ELSE requests[r]
    BY <1>1 DEF Recover, recover_stale, TransportInv, TypeOK
  <2>2. \A r \in R : requests[r].answer = "none"
    BY <2>1 DEF With, RequestOK
  <2>3. \A r \in Attempt : requests'[r].answer = IF r \in R THEN "error" ELSE requests[r].answer
    BY <2>1 DEF Row
  <2>4. Once!Abandon(R)
    BY <2>1, <2>2, <2>3 DEF Once!Abandon, verdictOf, With
  <2>5. R \in SUBSET Attempt
    BY DEF With
  <2> QED
    BY <2>4, <2>5 DEF Once!Next
<1>2. CASE Purge(d)
  <2>1. PICK Old \in SUBSET Settled : purge(Old)
    BY <1>2 DEF Purge
  <2>2. \A r \in Attempt : requests'[r].answer = requests[r].answer
    BY <2>1 DEF purge, TransportInv, TypeOK, Row
  <2> QED
    BY <1>2, <2>2, NothingSaid DEF Purge
<1>3. CASE UNCHANGED <<requests, runs>>
  BY <1>3, NothingSaid
<1> QED
  BY <1>1, <1>2, <1>3 DEF DaemonStep, Bind, StartWorkers, MarkReady, Heartbeat, Close,
                          Unlink, Drain, Exit, Die, bridgeVars

LEMMA ConnMaps ==
  ASSUME TransportInv, NEW r \in Attempt, ConnStep(r)
  PROVE  Once!Next \/ UNCHANGED <<runs, verdictOf>>
<1>1. CASE Accept(r)
  BY <1>1, NothingSaid DEF Accept, bridgeVars
<1>2. CASE Serve(r)
  <2>1. /\ runs[r] = 0
        /\ requests[r].answer = "none"
    BY <1>2 DEF Serve, TransportInv, ConnOK, RequestOK
  <2> QED
    BY <1>2, <2>1, EffectIsRun DEF Serve, TransportInv, bridgeVars
<1> QED
  BY <1>1, <1>2 DEF ConnStep

LEMMA WorkerMaps ==
  ASSUME TransportInv, NEW w \in Worker, WorkerStep(w)
  PROVE  Once!Next \/ UNCHANGED <<runs, verdictOf>>
<1>0. /\ requests \in [Attempt -> Row]
      /\ TypeOK
      /\ ThreadOK(w)
      /\ worker[w] \in Thread
      /\ \A r \in Attempt : RequestOK(r)
  BY DEF TransportInv, TypeOK
<1>1. CASE LoopHead(w) \/ Look(w)
  BY <1>1, NothingSaid DEF LoopHead, Look, bridgeVars
<1>2. CASE Claim(w)
  <2>1. \A r \in Attempt : requests'[r].answer = requests[r].answer
    BY <1>0, <1>2 DEF Claim, claim, Row
  <2> QED
    BY <1>2, <2>1, NothingSaid DEF Claim
<1>3. CASE RunItem(w)
  <2>1. /\ worker[w].item \in Attempt
        /\ runs[worker[w].item] = 0
        /\ requests[worker[w].item].answer = "none"
    BY <1>0, <1>3 DEF RunItem, ThreadOK, Busy, RequestOK
  <2> QED
    BY <1>0, <1>3, <2>1, EffectIsRun DEF RunItem, bridgeVars
<1>4. CASE Complete(w)
  <2> DEFINE r == worker[w].item
             v == worker[w].result
  <2>1. /\ r \in Attempt
        /\ v \in Result
        /\ requests[r] \in Row
        /\ requests[r].status = "processing"
        /\ requests[r].answer = "none"
        /\ v = "ok" => runs[r] = 1
    BY <1>0, <1>4 DEF Complete, ThreadOK, Busy, RequestOK, Thread
  <2>2. r \in Posted \ With("deleted")
    BY <2>1 DEF Posted, With
  <2>3. /\ UNCHANGED runs
        /\ requests'[r].answer = v
        /\ \A q \in Attempt : q # r => requests'[q].answer = requests[q].answer
    BY <1>0, <1>4, <2>1, <2>2 DEF Complete, complete, Row, Result
  <2> HIDE DEF r, v
  <2> QED
    BY <2>1, <2>3, AnswerIsRecord DEF Result
<1> QED
  BY <1>1, <1>2, <1>3, <1>4 DEF WorkerStep

LEMMA ClientMaps ==
  ASSUME TransportInv, NEW c \in Command, ClientStep(c)
  PROVE  Once!Next \/ UNCHANGED <<runs, verdictOf>>
<1>0. /\ requests \in [Attempt -> Row]
      /\ TypeOK
      /\ ClientOK(c)
      /\ At(c) \in Attempt
      /\ <<c, 3>> \in Attempt
      /\ \A r \in Attempt : RequestOK(r)
  BY AttemptOf DEF TransportInv, TypeOK
<1>1. CASE Enqueue(c)
  <2>1. requests[At(c)].answer = "none"
    BY <1>0, <1>1 DEF Enqueue, ClientOK, Unused, RequestOK
  <2>2. \A r \in Attempt : requests'[r].answer = requests[r].answer
    BY <1>0, <1>1, <2>1 DEF Enqueue, enqueue
  <2> QED
    BY <1>1, <2>2, NothingSaid DEF Enqueue
<1>2. CASE Acknowledge(c)
  <2>1. \A r \in Attempt : requests'[r].answer = requests[r].answer
    BY <1>0, <1>2 DEF Acknowledge, acknowledge, Row
  <2> QED
    BY <1>2, <2>1, NothingSaid DEF Acknowledge
<1>3. CASE Cancel(c) \/ Deadline(c)
  <2>1. cancel_if_queued(At(c)) /\ UNCHANGED runs
    BY <1>3 DEF Cancel, Deadline
  <2>2. CASE At(c) \in With("queued")
    <3>1. /\ requests[At(c)].answer = "none"
          /\ runs[At(c)] = 0
      BY <1>0, <2>2 DEF With, RequestOK
    <3>2. /\ requests'[At(c)].answer = "withdrawn"
          /\ \A q \in Attempt : q # At(c) => requests'[q].answer = requests[q].answer
      BY <1>0, <2>1, <2>2 DEF cancel_if_queued, Row
    <3> QED
      BY <1>0, <2>1, <3>1, <3>2, AnswerIsRecord
  <2>3. CASE At(c) \notin With("queued")
    BY <2>1, <2>3, NothingSaid DEF cancel_if_queued
  <2> QED
    BY <2>2, <2>3
<1>4. CASE Direct(c)
  <2>1. Unused(<<c, 3>>)
    BY <1>0, <1>4 DEF Direct, ClientOK, Ended
  <2>2. runs[<<c, 3>>] = 0 /\ requests[<<c, 3>>].answer = "none"
    BY <1>0, <2>1 DEF Unused, RequestOK
  <2>3. PICK v \in Result : Execute(<<c, 3>>, v)
    BY <1>4 DEF Direct
  <2> QED
    BY <1>0, <1>4, <2>2, <2>3, EffectIsRun DEF Direct, bridgeVars
<1>5. CASE UNCHANGED <<requests, runs>>
  BY <1>5, NothingSaid
<1> QED
  BY <1>1, <1>2, <1>3, <1>4, <1>5
     DEF ClientStep, Issue, Connect, ConnectFails, Receive, ReceiveFails, Mail, PollAnswered,
         PollNotReady, Unavailable, Started, StartFails, Killed, bridgeVars

\* Whatever is lost or dies on the way, a request carried by the socket, the
\* mailbox or the direct path takes effect at most once, never after it was
\* withdrawn or given up, and what is said of it is said once.
THEOREM Implements == Spec => RunsAtMostOnce
<1>1. Init => Once!Init
  BY DEF Init, BridgeInit, NoRequest, Once!Init, verdictOf
<1>2. TransportInv /\ [Next]_vars => [Once!Next]_<<runs, verdictOf>>
  <2> SUFFICES ASSUME TransportInv, [Next]_vars
               PROVE  Once!Next \/ UNCHANGED <<runs, verdictOf>>
    OBVIOUS
  <2>1. CASE UNCHANGED <<requests, runs>>
    BY <2>1, NothingSaid
  <2> QED
    BY <2>1, DaemonMaps, ConnMaps, WorkerMaps, ClientMaps
       DEF Next, HeartbeatAges, Tidy, vars, bridgeVars
<1> QED
  BY <1>1, <1>2, Inductive, PTL DEF Spec, RunsAtMostOnce, Once!Spec
===============================================================================
