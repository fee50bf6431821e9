----------------------------- MODULE MiningProofs -----------------------------
(***************************************************************************)
(* Proofs about Mining.  Nothing is asked of the pool: it may lose, repeat *)
(* and reorder what it likes.  A solution is used by the id of its work,   *)
(* ids are never given twice, and an entry leaves the list when it is      *)
(* used.                                                                   *)
(***************************************************************************)
EXTENDS Mining, FiniteSetTheorems, SequenceTheorems, WellFoundedInduction, TLAPS

(***************************************************************************)
(* The maximum of a set of heights exists: MaxHeight less the least        *)
(* distance from MaxHeight.                                                *)
(***************************************************************************)
LEMMA NewestBounds ==
  ASSUME NEW headers \in SUBSET Heights
  PROVE  /\ Newest(headers) \in headers \cup {0}
         /\ Newest(headers) \in 0..MaxHeight
         /\ \A h \in headers : Newest(headers) >= h
<1> DEFINE S == headers \cup {0}
           gaps == {n \in Nat : \E h \in S : n = MaxHeight - h}
<1>1. MaxHeight \in Nat
  BY MiningAssumption
<1>2. S \subseteq 0..MaxHeight
  BY <1>1 DEF Heights
<1>3. MaxHeight \in gaps
  BY <1>1
<1>4. PICK n \in gaps : \A m \in gaps : n <= m
  <2> DEFINE R == OpToRel(<, Nat)
  <2>1. \A p, q \in Nat : p < q => <<p, q>> \in R
    BY DEF OpToRel
  <2>2. IsWellFoundedOn(R, Nat)
    BY NatLessThanWellFounded
  <2>3. gaps \subseteq Nat /\ gaps # {}
    BY <1>3
  <2> HIDE DEF R, gaps
  <2>4. PICK n \in gaps : \A m \in gaps : ~ (<<m, n>> \in R)
    BY <2>2, <2>3, WFMin
  <2>5. ASSUME NEW m \in gaps PROVE n <= m
    <3>1. m \in Nat /\ n \in Nat /\ ~ (<<m, n>> \in R)
      BY <2>3, <2>4
    <3>2. ~(m < n)
      BY <3>1, <2>1
    <3>. QED
      BY <3>1, <3>2
  <2>. QED
    BY <2>5
<1>5. PICK top \in S : n = MaxHeight - top
  BY <1>4
<1>6. ASSUME NEW h \in S PROVE top >= h
  <2>1. h \in 0..MaxHeight /\ top \in 0..MaxHeight
    BY <1>2, <1>5
  <2>2. MaxHeight - h \in gaps
    BY <2>1, <1>1
  <2>. QED
    BY <2>1, <2>2, <1>1, <1>4, <1>5
<1>7. /\ Newest(headers) \in S
      /\ \A h \in S : Newest(headers) >= h
  <2>1. \E x \in S : \A y \in S : x >= y
    BY <1>6
  <2>. QED
    BY <2>1 DEF Newest, Max
<1>. QED
  BY <1>2, <1>7

LEMMA NewestHeight ==
  ASSUME NEW headers \in SUBSET Heights, headers # {}
  PROVE  Newest(headers) \in Heights
<1>1. MaxHeight \in Nat
  BY MiningAssumption
<1>2. PICK h \in headers : h \in 1..MaxHeight
  BY DEF Heights
<1>. QED
  BY <1>1, <1>2, NewestBounds DEF Heights

------------------------------------------------------------------------------
(***************************************************************************)
(* The pool keeps its types.                                               *)
(***************************************************************************)
LEMMA ControllerKept ==
  ASSUME PoolTypeOK, NEW c \in DOMAIN controllers, NEW k \in Controller
  PROVE  /\ [controllers EXCEPT ![c] = k] \in Seq(Controller)
         /\ Len([controllers EXCEPT ![c] = k]) = Len(controllers)
         /\ DOMAIN [controllers EXCEPT ![c] = k] = DOMAIN controllers
<1>1. controllers \in Seq(Controller) /\ c \in 1..Len(controllers)
  BY LenProperties DEF PoolTypeOK
<1>. QED
  BY <1>1, ExceptSeq, LenProperties

LEMMA ControllerType ==
  ASSUME PoolTypeOK, NEW c \in DOMAIN controllers
  PROVE  controllers[c] \in Controller /\ c \in Pids
<1>1. controllers \in Seq(Controller) /\ c \in 1..Len(controllers) /\ Len(controllers) \in Nat
  BY LenProperties DEF PoolTypeOK
<1>2. Len(controllers) <= MaxForks /\ MaxForks \in Nat
  BY PoolAssumption DEF PoolTypeOK
<1>. QED
  BY <1>1, <1>2, ElementOfSeq DEF Pids

LEMMA ForkedType == Forked \in Controller /\ [Forked EXCEPT !.inbox = <<Config>>] \in Controller
<1>1. <<>> \in Seq(Nat) /\ <<Config>> \in Seq(Nat)
  BY DEF Config
<1>. QED
  BY <1>1 DEF Forked, Controller

LEMMA ForkType ==
  ASSUME PoolTypeOK, NEW cs \in Seq(Controller), Len(cs) = Len(controllers), ForkAnother(cs)
  PROVE  controllers' \in Seq(Controller) /\ Len(controllers') <= MaxForks
         /\ current' \in DOMAIN controllers'
<1>1. Len(cs) \in Nat /\ MaxForks \in Nat
  BY LenProperties, PoolAssumption
<1>2. controllers' = Append(cs, Forked) /\ current' = Len(cs) + 1 /\ Len(cs) < MaxForks
  BY DEF ForkAnother
<1>3. controllers' \in Seq(Controller) /\ Len(controllers') = Len(cs) + 1
  BY <1>2, ForkedType, AppendProperties
<1>. QED
  BY <1>1, <1>2, <1>3, LenProperties

LEMMA SendType == ASSUME PoolTypeOK, NEW msg \in Nat, SendMessage(msg) PROVE PoolTypeOK'
<1>1. CASE Up(current)
  <2>1. controllers[current] \in Controller
    BY ControllerType DEF PoolTypeOK
  <2> DEFINE k == [controllers[current] EXCEPT !.inbox = Append(@, msg)]
  <2>2. k \in Controller
    BY <2>1, AppendProperties DEF Controller
  <2>3. controllers' = [controllers EXCEPT ![current] = k] /\ UNCHANGED <<current, deploying, workers>>
    BY <1>1 DEF SendMessage
  <2>. QED
    BY <2>2, <2>3, ControllerKept DEF PoolTypeOK
<1>2. CASE ~Up(current)
  BY <1>2, ForkType DEF SendMessage, PoolTypeOK
<1>. QED
  BY <1>1, <1>2

LEMMA PoolExitType ==
  ASSUME PoolTypeOK, NEW c \in DOMAIN controllers, PoolExit(c)
  PROVE  PoolTypeOK'
<1> DEFINE k == [controllers[c] EXCEPT !.at = "gone"]
<1>1. k \in Controller
  BY ControllerType DEF Controller
<1>2. [controllers EXCEPT ![c].at = "gone"] = [controllers EXCEPT ![c] = k]
  OBVIOUS
<1>. QED
  BY <1>1, <1>2, ControllerKept, ForkType DEF PoolExit, PoolTypeOK

LEMMA TakeSolutionType ==
  ASSUME PoolTypeOK, NEW c \in DOMAIN controllers, TakeSolution(c)
  PROVE  PoolTypeOK' /\ Head(controllers[c].outbox) \in Nat
<1>1. controllers[c] \in Controller
  BY ControllerType
<1>2. controllers[c].outbox \in Seq(Nat) /\ controllers[c].outbox # <<>>
  BY <1>1 DEF Controller, TakeSolution
<1>3. Tail(controllers[c].outbox) \in Seq(Nat) /\ Head(controllers[c].outbox) \in Nat
  BY <1>2, HeadTailProperties
<1> DEFINE k == [controllers[c] EXCEPT !.outbox = Tail(@)]
<1>4. k \in Controller
  BY <1>1, <1>3 DEF Controller
<1>5. controllers' = [controllers EXCEPT ![c] = k]
  BY DEF TakeSolution
<1>. QED
  BY <1>3, <1>4, <1>5, ControllerKept DEF TakeSolution, PoolTypeOK

LEMMA TakeMessageType ==
  ASSUME PoolTypeOK, NEW c \in DOMAIN controllers, TakeMessage(c)
  PROVE  PoolTypeOK'
<1> DEFINE msg == Head(controllers[c].inbox)
<1>1. controllers[c] \in Controller /\ c \in Pids
  BY ControllerType
<1>2. controllers[c].inbox \in Seq(Nat) /\ controllers[c].inbox # <<>>
  BY <1>1 DEF Controller, TakeMessage
<1>3. Tail(controllers[c].inbox) \in Seq(Nat) /\ msg \in Nat
  BY <1>2, HeadTailProperties
<1> DEFINE k == [controllers[c] EXCEPT !.inbox = Tail(@),
                                       !.limit = IF msg = Config THEN ConfigLimit ELSE @]
<1>4. k \in Controller
  BY <1>1, <1>3 DEF Controller
<1>5. controllers' = [controllers EXCEPT ![c] = k]
  BY DEF TakeMessage
<1>6. [at |-> "kill", ctl |-> c, work |-> msg, left |-> 0] \in Deployment
  BY <1>1, <1>3 DEF Deployment
<1>7. deploying' \in SUBSET Deployment
  <2>1. deploying' = deploying \cup (IF msg = Config THEN {}
                       ELSE {[at |-> "kill", ctl |-> c, work |-> msg, left |-> 0]})
    BY DEF TakeMessage
  <2>. QED
    BY <1>6, <2>1 DEF PoolTypeOK
<1>8. UNCHANGED <<current, workers>>
  BY DEF TakeMessage
<1> HIDE DEF k
<1>. QED
  BY <1>4, <1>5, <1>7, <1>8, ControllerKept DEF PoolTypeOK

LEMMA KilledType == ASSUME PoolTypeOK PROVE Killed \in [Worker -> Process \cup {Unborn}]
<1> SUFFICES ASSUME NEW w \in Worker PROVE Killed[w] \in Process \cup {Unborn}
  BY DEF Killed
<1>1. workers[w] \in Process \cup {Unborn}
  BY DEF PoolTypeOK
<1>. QED
  BY <1>1 DEF Killed, Process, Unborn

LEMMA ProceedType ==
  ASSUME PoolTypeOK, NEW d \in deploying, NEW next \in Deployment, Proceed(d, next)
  PROVE  deploying' \in SUBSET Deployment
BY DEF Proceed, PoolTypeOK

LEMMA DeploymentType ==
  ASSUME PoolTypeOK, NEW d \in deploying
  PROVE  d \in Deployment /\ d.ctl \in Pids /\ d.left \in Nat /\ d.work \in Nat
BY DEF PoolTypeOK, Deployment

LEMMA KillEarlierType ==
  ASSUME PoolTypeOK, NEW d \in deploying, KillEarlier(d)
  PROVE  PoolTypeOK'
<1>1. [d EXCEPT !.at = "count"] \in Deployment
  BY DeploymentType DEF Deployment
<1>2. deploying' \in SUBSET Deployment
  BY <1>1, ProceedType DEF KillEarlier
<1>3. workers' \in [Worker -> Process \cup {Unborn}]
  BY KilledType DEF KillEarlier
<1>. QED
  BY <1>2, <1>3 DEF KillEarlier, PoolTypeOK

LEMMA CountWorkersType ==
  ASSUME PoolTypeOK, NEW d \in deploying, CountWorkers(d), d.ctl \in DOMAIN controllers
  PROVE  PoolTypeOK'
<1> DEFINE listed == Cardinality(Cluster(d.ctl))
           limit == controllers[d.ctl].limit
           left == IF listed < limit THEN limit - listed ELSE 0
<1>1. listed \in Nat
  BY PoolAssumption, FS_Subset, FS_CardinalityType DEF Cluster
<1>2. limit \in Nat
  BY ControllerType, PoolAssumption DEF Controller
<1>3. left \in Nat
  BY <1>1, <1>2
<1>4. [d EXCEPT !.at = "fork", !.left = left] \in Deployment
  BY <1>3, DeploymentType DEF Deployment
<1>5. deploying' \in SUBSET Deployment
  BY <1>4, ProceedType DEF CountWorkers
<1>. QED
  BY <1>5 DEF CountWorkers, PoolTypeOK

LEMMA CreateThreadType ==
  ASSUME PoolTypeOK, NEW d \in deploying, NEW w \in Worker, CreateThread(d, w), d.left # 0
  PROVE  PoolTypeOK'
<1>1. [d EXCEPT !.left = @ - 1] \in Deployment
  BY DeploymentType DEF Deployment
<1>2. deploying' \in SUBSET Deployment
  BY <1>1, ProceedType DEF CreateThread
<1>3. [at |-> "forked", ctl |-> d.ctl, work |-> d.work] \in Process
  BY DeploymentType DEF Process
<1>. QED
  BY <1>2, <1>3 DEF CreateThread, PoolTypeOK

LEMMA WorkerType ==
  ASSUME PoolTypeOK, NEW w \in Worker, workers[w].at # "none"
  PROVE  workers[w] \in Process /\ workers[w].work \in Nat
<1>1. workers[w] \in Process
  BY DEF PoolTypeOK, Unborn
<1>. QED
  BY <1>1 DEF Process

LEMMA MineType ==
  ASSUME PoolTypeOK, NEW w \in Worker, Mine(w), workers[w].ctl \in DOMAIN controllers
  PROVE  PoolTypeOK'
<1> DEFINE c == workers[w].ctl
           k == [controllers[c] EXCEPT !.outbox = Append(@, workers[w].work)]
<1>1. workers[w] \in Process /\ workers[w].work \in Nat
  BY WorkerType DEF Mine
<1>2. controllers[c] \in Controller
  BY ControllerType
<1>3. Append(controllers[c].outbox, workers[w].work) \in Seq(Nat)
  BY <1>1, <1>2, AppendProperties DEF Controller
<1>4. k \in Controller
  BY <1>2, <1>3 DEF Controller
<1>5. controllers' = [controllers EXCEPT ![c] = k] /\ UNCHANGED <<current, deploying>>
  BY DEF Mine
<1>6. workers' \in [Worker -> Process \cup {Unborn}]
  <2>1. [workers[w] EXCEPT !.at = "solved"] \in Process
    BY <1>1 DEF Process
  <2>2. workers' = [workers EXCEPT ![w] = [workers[w] EXCEPT !.at = "solved"]]
    BY DEF Mine
  <2>. QED
    BY <2>1, <2>2 DEF PoolTypeOK
<1> HIDE DEF k, c
<1>7. c \in DOMAIN controllers
  BY DEF c
<1>. QED
  BY <1>4, <1>5, <1>6, <1>7, ControllerKept DEF PoolTypeOK

LEMMA WorkerStartsType ==
  ASSUME PoolTypeOK, NEW w \in Worker, WorkerStarts(w) \/ WorkerExit(w)
  PROVE  PoolTypeOK'
<1>1. workers[w] \in Process
  BY WorkerType DEF WorkerStarts, WorkerExit
<1>2. [workers[w] EXCEPT !.at = "mining"] \in Process
  BY <1>1 DEF Process
<1>3. CASE WorkerStarts(w)
  <2>1. workers' = [workers EXCEPT ![w] = [workers[w] EXCEPT !.at = "mining"]]
    BY <1>3 DEF WorkerStarts
  <2>. QED
    BY <1>2, <1>3, <2>1 DEF WorkerStarts, PoolTypeOK
<1>4. CASE WorkerExit(w)
  BY <1>4 DEF WorkerExit, PoolTypeOK
<1>. QED
  BY <1>3, <1>4

LEMMA ControllerDiesType ==
  ASSUME PoolTypeOK, NEW c \in DOMAIN controllers, ControllerDies(c)
  PROVE  PoolTypeOK'
<1> DEFINE k == [controllers[c] EXCEPT !.at = "down", !.inbox = <<>>]
<1>1. k \in Controller
  <2>1. <<>> \in Seq(Nat)
    OBVIOUS
  <2>. QED
    BY <2>1, ControllerType DEF Controller
<1>2. controllers' = [controllers EXCEPT ![c] = k] /\ UNCHANGED current
  BY DEF ControllerDies
<1>3. deploying' \in SUBSET Deployment
  BY DEF ControllerDies, PoolTypeOK
<1>4. workers' \in [Worker -> Process \cup {Unborn}]
  BY DEF ControllerDies, PoolTypeOK
<1> HIDE DEF k
<1>. QED
  BY <1>1, <1>2, <1>3, <1>4, ControllerKept DEF PoolTypeOK

------------------------------------------------------------------------------
(***************************************************************************)
(* What is deployed and what mines belongs to a controller that was        *)
(* forked, and the one messages go to has not exited.                      *)
(***************************************************************************)
PoolLinked ==
  /\ \A d \in deploying : d.ctl \in DOMAIN controllers /\ (d.at = "fork" => d.left # 0)
  /\ \A w \in Worker : workers[w].at # "none" => workers[w].ctl \in DOMAIN controllers
  /\ PoolIsReplaced

PoolInv == PoolTypeOK /\ PoolLinked

LEMMA ForkLinked ==
  ASSUME PoolInv, NEW cs \in Seq(Controller), Len(cs) = Len(controllers), ForkAnother(cs),
         UNCHANGED <<deploying, workers>>
  PROVE  PoolLinked'
<1>1. controllers' = Append(cs, Forked) /\ current' = Len(cs) + 1
  BY DEF ForkAnother
<1>2. /\ controllers' \in Seq(Controller) /\ Len(controllers') = Len(cs) + 1
      /\ controllers'[Len(cs) + 1] = Forked
  BY <1>1, ForkedType, AppendProperties
<1>3. Len(controllers) \in Nat /\ DOMAIN controllers = 1..Len(controllers)
      /\ DOMAIN controllers' = 1..Len(controllers')
  BY <1>2, LenProperties DEF PoolInv, PoolTypeOK
<1>4. DOMAIN controllers \subseteq DOMAIN controllers'
  BY <1>2, <1>3
<1>5. PoolIsReplaced'
  BY <1>1, <1>2 DEF PoolIsReplaced, Forked
<1>. QED
  BY <1>4, <1>5 DEF PoolInv, PoolLinked

LEMMA SendInv == ASSUME PoolInv, NEW msg \in Nat, SendMessage(msg) PROVE PoolInv'
<1>1. PoolTypeOK'
  BY SendType DEF PoolInv
<1>2. CASE Up(current)
  <2> DEFINE k == [controllers[current] EXCEPT !.inbox = Append(@, msg)]
  <2>1. controllers' = [controllers EXCEPT ![current] = k] /\ UNCHANGED <<current, deploying, workers>>
    BY <1>2 DEF SendMessage
  <2>2. DOMAIN controllers' = DOMAIN controllers /\ current \in DOMAIN controllers
    BY <2>1 DEF PoolInv, PoolTypeOK
  <2>3. controllers'[current].at = "up"
    BY <2>1, <2>2, <1>2, ControllerType DEF Up, PoolInv, Controller
  <2>. QED
    BY <1>1, <2>1, <2>2, <2>3 DEF PoolInv, PoolLinked, PoolIsReplaced
<1>3. CASE ~Up(current)
  <2>1. ForkAnother(controllers) /\ UNCHANGED <<deploying, workers>>
    BY <1>3 DEF SendMessage
  <2>. QED
    BY <1>1, <2>1, ForkLinked DEF PoolInv, PoolTypeOK
<1>. QED
  BY <1>2, <1>3

LEMMA TakeSolutionInv ==
  ASSUME PoolInv, NEW c \in DOMAIN controllers, TakeSolution(c)
  PROVE  PoolInv'
<1>1. PoolTypeOK'
  BY TakeSolutionType DEF PoolInv
<1>2. /\ DOMAIN controllers' = DOMAIN controllers
      /\ \A k \in DOMAIN controllers : controllers'[k].at = controllers[k].at
  <2>1. \A k \in DOMAIN controllers : controllers[k] \in Controller
    BY ControllerType DEF PoolInv
  <2>. QED
    BY <2>1 DEF TakeSolution, Controller
<1>. QED
  BY <1>1, <1>2 DEF TakeSolution, PoolInv, PoolLinked, PoolIsReplaced, PoolTypeOK

LEMMA PoolExitInv ==
  ASSUME PoolInv, NEW c \in DOMAIN controllers, PoolExit(c)
  PROVE  PoolInv'
<1> DEFINE k == [controllers[c] EXCEPT !.at = "gone"]
<1>1. k \in Controller
  BY ControllerType DEF Controller, PoolInv
<1>2. [controllers EXCEPT ![c].at = "gone"] = [controllers EXCEPT ![c] = k]
  OBVIOUS
<1> HIDE DEF k
<1>3. /\ [controllers EXCEPT ![c] = k] \in Seq(Controller)
      /\ Len([controllers EXCEPT ![c] = k]) = Len(controllers)
  BY <1>1, ControllerKept DEF PoolInv
<1>4. ForkAnother([controllers EXCEPT ![c] = k]) /\ UNCHANGED <<deploying, workers>>
  BY <1>2 DEF PoolExit
<1>5. PoolTypeOK' /\ PoolLinked'
  BY <1>3, <1>4, ForkLinked, PoolExitType DEF PoolInv
<1>. QED
  BY <1>5 DEF PoolInv

LEMMA TakeMessageInv ==
  ASSUME PoolInv, NEW c \in DOMAIN controllers, TakeMessage(c)
  PROVE  PoolInv'
<1> DEFINE msg == Head(controllers[c].inbox)
           k == [controllers[c] EXCEPT !.inbox = Tail(@),
                                       !.limit = IF msg = Config THEN ConfigLimit ELSE @]
<1>1. PoolTypeOK' /\ PoolTypeOK
  BY TakeMessageType DEF PoolInv
<1>2. controllers' = [controllers EXCEPT ![c] = k] /\ UNCHANGED <<current, workers>>
  BY DEF TakeMessage
<1>3. DOMAIN controllers' = DOMAIN controllers
  BY <1>2
<1>4. PoolIsReplaced'
  <2>1. k.at = controllers[c].at
    BY <1>1, ControllerType DEF Controller
  <2> HIDE DEF k
  <2>. QED
    BY <1>2, <2>1 DEF PoolInv, PoolLinked, PoolIsReplaced, PoolTypeOK
<1>5. \A d \in deploying' : d \in deploying \/ (d.ctl = c /\ d.at = "kill")
  BY DEF TakeMessage
<1>. QED
  BY <1>1, <1>2, <1>3, <1>4, <1>5 DEF PoolInv, PoolLinked

LEMMA DeployInv ==
  ASSUME PoolInv, NEW d \in deploying,
         KillEarlier(d) \/ CountWorkers(d) \/ \E w \in Worker : CreateThread(d, w)
  PROVE  PoolInv'
<1>1. d.ctl \in DOMAIN controllers /\ (d.at = "fork" => d.left # 0) /\ d \in Deployment
  BY DeploymentType DEF PoolInv, PoolLinked
<1>2. UNCHANGED <<controllers, current>>
  BY DEF KillEarlier, CountWorkers, CreateThread
<1>3. PoolTypeOK'
  BY <1>1, KillEarlierType, CountWorkersType, CreateThreadType DEF PoolInv, CreateThread
<1>4. \A e \in deploying' : e \in deploying \/ (e.ctl = d.ctl /\ (e.at = "fork" => e.left # 0))
  <2>1. ASSUME NEW next, Proceed(d, next), next.ctl = d.ctl
        PROVE  \A e \in deploying' : e \in deploying \/ (e.ctl = d.ctl /\ (e.at = "fork" => e.left # 0))
    BY <2>1 DEF Proceed
  <2>2. CASE KillEarlier(d)
    <3>1. [d EXCEPT !.at = "count"].ctl = d.ctl
      BY <1>1 DEF Deployment
    <3>. QED
      BY <2>1, <2>2, <3>1 DEF KillEarlier
  <2>3. CASE CountWorkers(d)
    <3>1. PICK left : Proceed(d, [d EXCEPT !.at = "fork", !.left = left])
      BY <2>3 DEF CountWorkers
    <3>2. [d EXCEPT !.at = "fork", !.left = left].ctl = d.ctl
      BY <1>1 DEF Deployment
    <3>. QED
      BY <2>1, <3>1, <3>2
  <2>4. CASE \E w \in Worker : CreateThread(d, w)
    <3>1. [d EXCEPT !.left = @ - 1].ctl = d.ctl
      BY <1>1 DEF Deployment
    <3>. QED
      BY <2>1, <2>4, <3>1 DEF CreateThread
  <2>. QED
    BY <2>2, <2>3, <2>4
<1>5. \A v \in Worker : workers'[v].at # "none" => workers'[v].ctl \in DOMAIN controllers
  <2>1. CASE KillEarlier(d)
    <3>1. \A v \in Worker : workers[v] \in Process \cup {Unborn}
      BY DEF PoolInv, PoolTypeOK
    <3>2. \A v \in Worker : Killed[v].ctl = workers[v].ctl
                            /\ (Killed[v].at # "none" => workers[v].at # "none")
      BY <3>1 DEF Killed, Process, Unborn
    <3>. QED
      BY <2>1, <3>2 DEF KillEarlier, PoolInv, PoolLinked
  <2>2. CASE CountWorkers(d)
    BY <2>2 DEF CountWorkers, PoolInv, PoolLinked
  <2>3. CASE \E w \in Worker : CreateThread(d, w)
    BY <2>3, <1>1 DEF CreateThread, PoolInv, PoolLinked, PoolTypeOK
  <2>. QED
    BY <2>1, <2>2, <2>3
<1>. QED
  BY <1>2, <1>3, <1>4, <1>5 DEF PoolInv, PoolLinked, PoolIsReplaced

LEMMA PurgeInv ==
  ASSUME PoolInv, NEW c \in DOMAIN controllers, PurgeWorkers(c)
  PROVE  PoolInv'
<1>1. \A v \in Worker : workers[v] \in Process \cup {Unborn}
  BY DEF PoolInv, PoolTypeOK
<1>2. \A v \in Worker : Killed[v].ctl = workers[v].ctl
                        /\ (Killed[v].at # "none" => workers[v].at # "none")
  BY <1>1 DEF Killed, Process, Unborn
<1>3. UNCHANGED <<controllers, current, deploying>> /\ workers' = Killed
  BY DEF PurgeWorkers
<1>4. Killed \in [Worker -> Process \cup {Unborn}]
  BY KilledType DEF PoolInv
<1>. QED
  BY <1>2, <1>3, <1>4 DEF PoolInv, PoolLinked, PoolIsReplaced, PoolTypeOK

LEMMA ControllerDiesInv ==
  ASSUME PoolInv, NEW c \in DOMAIN controllers, ControllerDies(c)
  PROVE  PoolInv'
<1> DEFINE k == [controllers[c] EXCEPT !.at = "down", !.inbox = <<>>]
<1>1. PoolTypeOK' /\ PoolTypeOK
  BY ControllerDiesType DEF PoolInv
<1>2. controllers' = [controllers EXCEPT ![c] = k] /\ UNCHANGED current
  BY DEF ControllerDies
<1>3. k.at = "down"
  BY <1>1, ControllerType DEF Controller
<1> HIDE DEF k
<1>4. PoolIsReplaced' /\ DOMAIN controllers' = DOMAIN controllers
  BY <1>1, <1>2, <1>3 DEF PoolInv, PoolLinked, PoolIsReplaced, PoolTypeOK
<1>5. \A v \in Worker : workers'[v] = workers[v] \/ workers'[v] = Unborn
  BY DEF ControllerDies
<1>6. deploying' \subseteq deploying
  BY DEF ControllerDies
<1>. QED
  BY <1>1, <1>4, <1>5, <1>6 DEF PoolInv, PoolLinked, Unborn

LEMMA WorkerInv ==
  ASSUME PoolInv, NEW w \in Worker, WorkerStarts(w) \/ WorkerExit(w) \/ Mine(w)
  PROVE  PoolInv'
<1>1. workers[w].at # "none" /\ workers[w].ctl \in DOMAIN controllers
  BY DEF PoolInv, PoolLinked, WorkerStarts, WorkerExit, Mine
<1>2. workers[w] \in Process
  BY <1>1, WorkerType DEF PoolInv
<1>3. PoolTypeOK'
  BY <1>1, WorkerStartsType, MineType DEF PoolInv
<1>4. \A v \in Worker : workers'[v].at # "none" =>
        workers[v].at # "none" /\ workers'[v].ctl = workers[v].ctl
  <2>1. workers \in [Worker -> Process \cup {Unborn}]
    BY DEF PoolInv, PoolTypeOK
  <2>2. CASE WorkerExit(w)
    BY <2>1, <2>2 DEF WorkerExit, Unborn
  <2>3. CASE WorkerStarts(w) \/ Mine(w)
    <3>1. PICK at : workers' = [workers EXCEPT ![w].at = at]
      BY <2>3 DEF WorkerStarts, Mine
    <3>2. workers'[w].ctl = workers[w].ctl
      BY <2>1, <3>1, <1>2 DEF Process
    <3>3. \A v \in Worker \ {w} : workers'[v] = workers[v]
      BY <2>1, <3>1
    <3>. QED
      BY <1>1, <3>2, <3>3
  <2>. QED
    BY <2>2, <2>3
<1>5. /\ DOMAIN controllers' = DOMAIN controllers /\ UNCHANGED <<current, deploying>>
      /\ \A k \in DOMAIN controllers : controllers'[k].at = controllers[k].at
  <2>1. \A k \in DOMAIN controllers : controllers[k] \in Controller
    BY ControllerType DEF PoolInv
  <2>. QED
    BY <1>1, <2>1 DEF WorkerStarts, WorkerExit, Mine, Controller
<1>. QED
  BY <1>3, <1>4, <1>5 DEF PoolInv, PoolLinked, PoolIsReplaced, PoolTypeOK

LEMMA PoolStepInv == PoolInv /\ PoolStep => PoolInv'
<1> SUFFICES ASSUME PoolInv, PoolStep PROVE PoolInv'
  OBVIOUS
<1>1. ASSUME NEW c \in DOMAIN controllers,
             PoolExit(c) \/ TakeMessage(c) \/ PurgeWorkers(c) \/ ControllerDies(c)
      PROVE  PoolInv'
  BY <1>1, PoolExitInv, TakeMessageInv, PurgeInv, ControllerDiesInv
<1>2. ASSUME NEW d \in deploying,
             KillEarlier(d) \/ CountWorkers(d) \/ \E w \in Worker : CreateThread(d, w)
      PROVE  PoolInv'
  BY <1>2, DeployInv
<1>3. ASSUME NEW w \in Worker, WorkerStarts(w) \/ Mine(w) \/ WorkerExit(w)
      PROVE  PoolInv'
  BY <1>3, WorkerInv
<1>. QED
  BY <1>1, <1>2, <1>3 DEF PoolStep

------------------------------------------------------------------------------
(***************************************************************************)
(* A listed entry holds the block of its own id, an id is listed once, and *)
(* what was published is no longer listed.                                 *)
(***************************************************************************)
ListSound ==
  /\ \A i \in DOMAIN unfinished :
       unfinished[i].id \in DOMAIN handed /\ unfinished[i].block = handed[unfinished[i].id]
  /\ \A i, j \in DOMAIN unfinished : unfinished[i].id = unfinished[j].id => i = j
  /\ \A i \in DOMAIN mined : mined[i].work \in DOMAIN handed
  /\ \A i \in DOMAIN mined, j \in DOMAIN unfinished : mined[i].work # unfinished[j].id

(***************************************************************************)
(* What the next work may be carried over from is the last work handed     *)
(* out.                                                                    *)
(***************************************************************************)
LastKept ==
  unfinishedBlock # None => handed # <<>> /\ unfinishedBlock = handed[Len(handed)]

IInv ==
  /\ TypeOK /\ PoolLinked /\ ListSound /\ LastKept
  /\ SolutionFitsBlock /\ OneBlockPerWork /\ FreshOrCarried

(***************************************************************************)
(* The part of the state that only startMining and solutions change.       *)
(***************************************************************************)
LEMMA OfficerKept ==
  ASSUME IInv, TypeOK', PoolLinked', UNCHANGED officer
  PROVE  IInv'
BY DEF IInv, ListSound, LastKept, SolutionFitsBlock, OneBlockPerWork, FreshOrCarried, officer

LEMMA InitInv == Init => IInv
<1> SUFFICES ASSUME Init PROVE IInv
  OBVIOUS
<1>1. stored \in HeaderLists /\ latest \in [Chain -> Heights]
  <2>1. stored \in [Chain -> SUBSET Heights] /\ \A c \in Chain : stored[c] # {}
    BY MiningAssumption DEF Init, Tips, Heights
  <2>. QED
    BY <2>1, NewestHeight DEF Init, HeaderLists
<1>2. /\ tip \in Tips /\ parent \in Block /\ quorum \in BOOLEAN /\ moves \in 0..MaxMoves
      /\ collected \in SUBSET Chain /\ canMine \in BOOLEAN
      /\ calls \in [Call -> {Idle} \cup Collecting \cup Gating \cup Starting]
  <2>1. MaxMoves \in Nat /\ Genesis \in Block
    BY MiningAssumption
  <2>2. tip \in Tips /\ parent \in Block /\ quorum \in BOOLEAN /\ moves \in 0..MaxMoves
    BY <2>1 DEF Init
  <2>3. collected \in SUBSET Chain /\ canMine \in BOOLEAN
    BY DEF Init
  <2>4. calls \in [Call -> {Idle}]
    BY DEF Init
  <2>. QED
    BY <2>2, <2>3, <2>4
<1>3. /\ unfinished = <<>> /\ handed = <<>> /\ mined = <<>> /\ unfinishedBlock = None
      /\ Len(unfinished) <= MaxListed /\ Len(handed) <= MaxWorks
  BY MiningAssumption, EmptySeq DEF Init
<1>4. PoolTypeOK /\ PoolLinked
  <2>1. controllers = << [Forked EXCEPT !.inbox = <<Config>>] >> /\ current = 1
        /\ deploying = {} /\ workers = [w \in Worker |-> Unborn]
    BY DEF Init, PoolInit
  <2>2. controllers \in Seq(Controller) /\ Len(controllers) = 1 /\ DOMAIN controllers = {1}
        /\ controllers[1] = [Forked EXCEPT !.inbox = <<Config>>]
    BY <2>1, ForkedType
  <2>3. PoolTypeOK
    BY <2>1, <2>2, PoolAssumption DEF PoolTypeOK
  <2>. QED
    BY <2>1, <2>2, <2>3 DEF PoolLinked, PoolIsReplaced, Forked, Unborn
<1>5. TypeOK
  BY <1>1, <1>2, <1>3, <1>4, EmptySeq DEF TypeOK
<1>. QED
  BY <1>3, <1>4, <1>5 DEF IInv, ListSound, LastKept, SolutionFitsBlock, OneBlockPerWork, FreshOrCarried

LEMMA PoolKept ==
  ASSUME PoolTypeOK, PoolLinked, UNCHANGED poolVars
  PROVE  PoolTypeOK' /\ PoolLinked'
BY DEF poolVars, PoolTypeOK, PoolLinked, PoolIsReplaced

LEMMA EnvironmentInv == IInv /\ Environment => IInv'
<1> SUFFICES ASSUME IInv, Environment PROVE IInv'
  OBVIOUS
<1>1. TypeOK
  BY DEF IInv
<1>2. UNCHANGED <<calls, officer, poolVars>>
  BY DEF Environment, PutLatest, PutParent, PutQuorum, PutChildHeaders, CountStored
<1>3. moves \in 0..MaxMoves /\ (Moves => moves' \in 0..MaxMoves)
  BY <1>1, MiningAssumption DEF TypeOK, Moves
<1>4. /\ tip' \in Tips /\ parent' \in Block /\ quorum' \in BOOLEAN /\ moves' \in 0..MaxMoves
      /\ collected' \in SUBSET Chain /\ canMine' \in BOOLEAN
  BY <1>1, <1>3 DEF TypeOK, Environment, PutLatest, PutParent, PutQuorum, PutChildHeaders,
       CountStored, store, gate
<1>5. stored' \in HeaderLists /\ latest' \in [Chain -> Heights]
  <2>1. CASE PutChildHeaders
    <3>1. Headers[tip] \in [Chain -> SUBSET Heights]
      BY <1>1, MiningAssumption DEF TypeOK, Tips, Heights
    <3>2. ASSUME NEW c \in Chain PROVE Newest({latest[c]} \cup Headers[tip][c]) \in Heights
      <4>1. latest[c] \in Heights
        BY <1>1 DEF TypeOK
      <4>. QED
        BY <3>1, <4>1, NewestHeight
    <3>. QED
      BY <1>1, <2>1, <3>1, <3>2 DEF PutChildHeaders, TypeOK, HeaderLists
  <2>2. CASE ~PutChildHeaders
    BY <1>1, <2>2 DEF TypeOK, Environment, PutLatest, PutParent, PutQuorum, CountStored, headerStore
  <2>. QED
    BY <2>1, <2>2
<1>6. PoolTypeOK' /\ PoolLinked'
  BY <1>1, <1>2, PoolKept DEF IInv, TypeOK
<1>7. TypeOK'
  BY <1>1, <1>2, <1>4, <1>5, <1>6 DEF TypeOK, officer
<1>. QED
  BY <1>2, <1>6, <1>7, OfficerKept

LEMMA GateInv ==
  ASSUME IInv, NEW r \in Call,
         \/ \E c \in Chain, h \in Heights : CollectBlock(r, c, h)
         \/ NewRoveredBlock(r) \/ ReadQuorum(r) \/ ReadParent(r) \/ ReadLatest(r)
         \/ ReadTip(r) \/ ReadHeights(r)
  PROVE  IInv'
<1> DEFINE Calls == {Idle} \cup Collecting \cup Gating \cup Starting
<1>1. TypeOK
  BY DEF IInv
<1>2. UNCHANGED <<store, officer, poolVars>>
  BY DEF CollectBlock, NewRoveredBlock, ReadQuorum, ReadParent, ReadLatest, ReadTip, ReadHeights
<1>3. calls \in [Call -> Calls] /\ calls[r] \in Calls
  BY <1>1 DEF TypeOK
<1>4. ASSUME NEW call \in Calls, Goes(r, call) PROVE calls' \in [Call -> Calls]
  BY <1>3, <1>4 DEF Goes
<1>5. Idle \in Calls
  OBVIOUS
<1>6. stored' \in HeaderLists /\ latest' \in [Chain -> Heights] /\ calls' \in [Call -> Calls]
      /\ collected' \in SUBSET Chain /\ canMine' \in BOOLEAN
  <2>1. CASE \E c \in Chain, h \in Heights : CollectBlock(r, c, h)
    <3>1. PICK c \in Chain, h \in Heights : CollectBlock(r, c, h)
      BY <2>1
    <3>2. [pc |-> "stored", chain |-> c, height |-> h] \in Calls
      BY DEF Collecting
    <3>. QED
      BY <1>1, <1>4, <3>1, <3>2 DEF CollectBlock, TypeOK, HeaderLists, gate
  <2>2. CASE NewRoveredBlock(r)
    <3>1. calls[r] \in Collecting
      BY <1>3, <2>2 DEF NewRoveredBlock, Idle, Collecting, Gating, Starting
    <3>2. calls[r].chain \in Chain /\ calls[r].height \in Heights
      BY <3>1 DEF Collecting
    <3>3. [pc |-> "quorum", parent |-> None] \in Calls
      BY DEF Gating
    <3>. QED
      BY <1>1, <1>4, <1>5, <2>2, <3>2, <3>3 DEF NewRoveredBlock, TypeOK
  <2>3. CASE ReadQuorum(r)
    <3>1. calls[r] \in Gating
      BY <1>3, <2>3 DEF ReadQuorum, Idle, Collecting, Gating, Starting
    <3>2. [calls[r] EXCEPT !.pc = "parent"] \in Calls
      BY <3>1 DEF Gating
    <3>. QED
      BY <1>1, <1>4, <1>5, <2>3, <3>2 DEF ReadQuorum, TypeOK, headerStore
  <2>4. CASE ReadParent(r)
    <3>1. [pc |-> "latest", parent |-> parent] \in Calls
      BY <1>1 DEF Gating, TypeOK
    <3>. QED
      BY <1>1, <1>4, <2>4, <3>1 DEF ReadParent, TypeOK, headerStore, gate
  <2>5. CASE ReadLatest(r)
    <3>1. calls[r] \in Gating
      BY <1>3, <2>5 DEF ReadLatest, Idle, Collecting, Gating, Starting
    <3>2. [calls[r] EXCEPT !.pc = "tip"] \in Calls
      BY <3>1 DEF Gating
    <3>. QED
      BY <1>1, <1>4, <1>5, <2>5, <3>2 DEF ReadLatest, TypeOK, headerStore
  <2>6. CASE ReadTip(r)
    <3>1. [pc |-> "heights", tip |-> tip, to |-> [c \in Chain |-> 0]] \in Calls
      BY <1>1, MiningAssumption DEF Starting, TypeOK
    <3>. QED
      BY <1>1, <1>4, <2>6, <3>1 DEF ReadTip, TypeOK, headerStore, gate
  <2>7. CASE ReadHeights(r)
    <3>1. calls[r] \in Starting
      BY <1>3, <2>7 DEF ReadHeights, Idle, Collecting, Gating, Starting
    <3>2. latest \in [Chain -> 0..MaxHeight]
      BY <1>1, MiningAssumption DEF TypeOK, Heights
    <3>3. [calls[r] EXCEPT !.pc = "headers", !.to = latest] \in Calls
      BY <3>1, <3>2 DEF Starting
    <3>. QED
      BY <1>1, <1>4, <2>7, <3>3 DEF ReadHeights, TypeOK, headerStore, gate
  <2>. QED
    BY <2>1, <2>2, <2>3, <2>4, <2>5, <2>6, <2>7
<1>7. PoolTypeOK' /\ PoolLinked'
  BY <1>1, <1>2, PoolKept DEF IInv, TypeOK
<1>8. TypeOK'
  BY <1>1, <1>2, <1>6, <1>7 DEF TypeOK, officer, store
<1>. QED
  BY <1>2, <1>7, <1>8, OfficerKept

------------------------------------------------------------------------------
(***************************************************************************)
(* The prepared block: a chain lists fresh headers, or one carried over.   *)
(***************************************************************************)
LEMMA FreshKeys ==
  ASSUME NEW b \in Tips, NEW c \in Chain, NEW to \in 0..MaxHeight,
         NEW h \in NewBlockHeadersKeys(b, c, to)
  PROVE  /\ \A k \in Headers[b][c] : h > k
         /\ \A k \in NewBlockHeadersKeys(b, c, to) : k <= h + Window
<1>1. Headers[b][c] \in SUBSET Heights
  BY MiningAssumption DEF Heights, Tips
<1>2. Newest(Headers[b][c]) \in 0..MaxHeight
      /\ \A k \in Headers[b][c] : Newest(Headers[b][c]) >= k
  BY <1>1, NewestBounds
<1>3. h \in Heights /\ Newest(Headers[b][c]) + 1 <= h /\ to <= h + Window
  BY DEF NewBlockHeadersKeys
<1>4. \A k \in NewBlockHeadersKeys(b, c, to) : k \in Heights /\ k <= to
  BY DEF NewBlockHeadersKeys
<1>5. MaxHeight \in Nat /\ Window \in Nat
  BY MiningAssumption
<1>6. ASSUME NEW k \in Headers[b][c] PROVE h > k
  BY <1>1, <1>2, <1>3, <1>5 DEF Heights
<1>7. ASSUME NEW k \in NewBlockHeadersKeys(b, c, to) PROVE k <= h + Window
  BY <1>3, <1>4, <1>5 DEF Heights
<1>. QED
  BY <1>6, <1>7

(***************************************************************************)
(* What FreshOrCarried says of a block when it is prepared.                *)
(***************************************************************************)
FreshOrLast(block, c) ==
  \/ IsFresh(block, c)
  \/ block.headers[c] = {Newest(Headers[block.prev][c])}
  \/ /\ unfinishedBlock # None /\ Count(unfinishedBlock) < MaxCount
     /\ block.headers[c] = {Newest(unfinishedBlock.headers[c])}

LEMMA PreparedBlock ==
  ASSUME TypeOK, NEW r \in Call, calls[r] \in Starting
  PROVE  /\ PrepareNewBlock(r) \in NewBlock
         /\ \A c \in Chain : FreshOrLast(PrepareNewBlock(r), c)
<1> DEFINE b == calls[r].tip
           full == [Chain -> (SUBSET Heights) \ {{}}]
<1>1. b \in Tips
  BY DEF Starting
<1>2. Carried(r) \in full
  <2>1. Headers[b] \in full
    BY <1>1, MiningAssumption DEF Tips, Heights
  <2>2. Reused # None => Reused \in NewBlock
    BY DEF Reused, TypeOK
  <2>. QED
    BY <2>1, <2>2 DEF Carried, NewBlock
<1>3. ASSUME NEW c \in Chain PROVE Found(r)[c] \subseteq Heights
  BY DEF Found, NewBlockHeadersKeys
<1>4. ASSUME NEW c \in Chain PROVE Newest(Carried(r)[c]) \in Heights
  BY <1>2, NewestHeight
<1> DEFINE lists == [c \in Chain |-> IF Found(r)[c] # {} THEN Found(r)[c]
                                      ELSE {Newest(Carried(r)[c])}]
<1>5. PrepareNewBlock(r) = [prev |-> b, headers |-> lists]
  BY DEF PrepareNewBlock
<1>6. lists \in full
  BY <1>3, <1>4
<1> DEFINE block == PrepareNewBlock(r)
<1>7. ASSUME NEW c \in Chain PROVE FreshOrLast(block, c)
  <2>1. block.prev = b /\ block.headers[c] = lists[c]
    BY <1>5
  <2>2. CASE Found(r)[c] # {}
    <3>1. calls[r].to[c] \in 0..MaxHeight
      BY DEF Starting
    <3>2. lists[c] \subseteq NewBlockHeadersKeys(b, c, calls[r].to[c])
      BY <2>2 DEF Found
    <3> HIDE DEF b, lists, block
    <3>3. IsFresh(block, c)
      BY <1>1, <2>1, <3>1, <3>2, FreshKeys DEF IsFresh
    <3>. QED
      BY <3>3 DEF FreshOrLast
  <2>3. CASE Found(r)[c] = {}
    <3>1. lists[c] = {Newest(Carried(r)[c])}
      BY <2>3
    <3>2. CASE Reused = None
      <4>1. Carried(r) = Headers[b]
        BY <3>2 DEF Carried
      <4>. QED
        BY <2>1, <3>1, <4>1 DEF FreshOrLast
    <3>3. CASE Reused # None
      <4>1. /\ unfinishedBlock # None /\ Count(unfinishedBlock) < MaxCount
            /\ Reused = unfinishedBlock
        BY <3>3 DEF Reused
      <4>2. Carried(r) = unfinishedBlock.headers
        BY <3>3, <4>1 DEF Carried
      <4>. QED
        BY <2>1, <3>1, <4>1, <4>2 DEF FreshOrLast
    <3>. QED
      BY <3>2, <3>3
  <2>. QED
    BY <2>2, <2>3
<1>8. block \in NewBlock
  <2> HIDE DEF lists, b
  <2>. QED
    BY <1>1, <1>5, <1>6 DEF NewBlock
<1>. QED
  BY <1>7, <1>8

LEMMA ListedWithType ==
  ASSUME TypeOK, NEW new \in Listed
  PROVE  /\ ListedWith(new) \in Seq(Listed) /\ Len(ListedWith(new)) <= MaxListed
         /\ \E s \in {0, 1} :
              /\ Len(ListedWith(new)) = Len(unfinished) + 1 - s
              /\ s = 1 => Len(unfinished) = MaxListed
              /\ \A j \in DOMAIN ListedWith(new) :
                   ListedWith(new)[j] =
                     IF j + s = Len(unfinished) + 1 THEN new ELSE unfinished[j + s]
<1> DEFINE longer == Append(unfinished, new)
<1>1. unfinished \in Seq(Listed) /\ Len(unfinished) \in Nat /\ Len(unfinished) <= MaxListed
      /\ MaxListed \in Nat \ {0}
  BY LenProperties, MiningAssumption DEF TypeOK
<1>2. /\ longer \in Seq(Listed) /\ Len(longer) = Len(unfinished) + 1 /\ longer # <<>>
      /\ DOMAIN longer = 1..Len(unfinished) + 1
      /\ \A j \in 1..Len(unfinished) + 1 :
           longer[j] = IF j = Len(unfinished) + 1 THEN new ELSE unfinished[j]
  <2>1. /\ longer \in Seq(Listed) /\ Len(longer) = Len(unfinished) + 1
        /\ \A j \in 1..Len(unfinished) : longer[j] = unfinished[j]
        /\ longer[Len(unfinished) + 1] = new
    BY <1>1, AppendProperties
  <2>. QED
    BY <1>1, <2>1, LenProperties, EmptySeq
<1>3. CASE Len(longer) > MaxListed
  <2>1. ListedWith(new) = Tail(longer)
    BY <1>3 DEF ListedWith
  <2>2. /\ Tail(longer) \in Seq(Listed) /\ Len(Tail(longer)) = Len(longer) - 1
        /\ \A j \in 1..Len(longer) - 1 : Tail(longer)[j] = longer[j + 1]
    BY <1>2, HeadTailProperties
  <2>3. DOMAIN Tail(longer) = 1..Len(unfinished)
    BY <1>1, <1>2, <2>2, LenProperties
  <2> HIDE DEF longer
  <2>4. \A j \in 1..Len(unfinished) :
          Tail(longer)[j] = IF j + 1 = Len(unfinished) + 1 THEN new ELSE unfinished[j + 1]
    BY <1>1, <1>2, <2>2
  <2>5. Len(unfinished) = MaxListed
    BY <1>1, <1>2, <1>3
  <2>6. Len(Tail(longer)) = Len(unfinished) + 1 - 1 /\ Len(Tail(longer)) <= MaxListed
    BY <1>1, <1>2, <2>2
  <2> HIDE DEF ListedWith
  <2>. QED
    BY <1>1, <2>1, <2>2, <2>3, <2>4, <2>5, <2>6
<1>4. CASE ~(Len(longer) > MaxListed)
  <2>1. ListedWith(new) = longer
    BY <1>4 DEF ListedWith
  <2> HIDE DEF longer
  <2>. QED
    BY <1>1, <1>2, <1>4, <2>1
<1>. QED
  BY <1>3, <1>4

LEMMA StartMiningInv ==
  ASSUME IInv, NEW r \in Call, StartMining(r)
  PROVE  IInv'
<1> DEFINE block == PrepareNewBlock(r)
           id == Len(handed) + 1
           new == [id |-> id, block |-> block]
<1>1. TypeOK /\ PoolInv
  BY DEF IInv, TypeOK, PoolInv
<1>2. calls[r] \in Starting
  <2>1. calls[r] \in {Idle} \cup Collecting \cup Gating \cup Starting
    BY <1>1 DEF TypeOK
  <2>2. calls[r].pc = "headers"
    BY DEF StartMining
  <2>. QED
    BY <2>1, <2>2 DEF Idle, Collecting, Gating
<1>3. block \in NewBlock /\ \A c \in Chain : FreshOrLast(block, c)
  BY <1>1, <1>2, PreparedBlock
<1>4. handed \in Seq(NewBlock) /\ Len(handed) \in Nat /\ DOMAIN handed = 1..Len(handed)
      /\ Len(handed) < MaxWorks /\ id \in Nat /\ MaxWorks \in Nat
  BY <1>1, LenProperties, MiningAssumption DEF TypeOK, StartMining, Open
<1>5. /\ unfinished' = ListedWith(new) /\ unfinishedBlock' = block
      /\ handed' = Append(handed, block) /\ SendMessage(id) /\ calls' = [calls EXCEPT ![r] = Idle]
      /\ UNCHANGED <<store, headerStore, gate, mined>>
  BY DEF StartMining, Goes
<1>6. new \in Listed
  BY <1>3, <1>4 DEF Listed
<1> HIDE DEF block
<1>7. /\ handed' \in Seq(NewBlock) /\ Len(handed') = id /\ DOMAIN handed' = 1..id
      /\ handed'[id] = block /\ \A i \in DOMAIN handed : handed'[i] = handed[i]
  <2>1. /\ handed' \in Seq(NewBlock) /\ Len(handed') = id
        /\ handed'[id] = block /\ \A i \in 1..Len(handed) : handed'[i] = handed[i]
    BY <1>3, <1>4, <1>5, AppendProperties
  <2>. QED
    BY <1>4, <2>1, LenProperties
<1> HIDE DEF id, new
<1>8. PICK s \in {0, 1} :
        /\ Len(unfinished') = Len(unfinished) + 1 - s
        /\ s = 1 => Len(unfinished) = MaxListed
        /\ \A j \in DOMAIN unfinished' :
             unfinished'[j] = IF j + s = Len(unfinished) + 1 THEN new ELSE unfinished[j + s]
  BY <1>1, <1>5, <1>6, ListedWithType
<1>9. unfinished' \in Seq(Listed) /\ Len(unfinished') <= MaxListed
  BY <1>1, <1>5, <1>6, ListedWithType
<1>10. /\ unfinished \in Seq(Listed) /\ Len(unfinished) \in Nat
       /\ DOMAIN unfinished = 1..Len(unfinished) /\ DOMAIN unfinished' = 1..Len(unfinished')
       /\ Len(unfinished') \in Nat
  BY <1>1, <1>9, LenProperties DEF TypeOK
<1>11. new.id = id /\ new.block = block
  BY DEF new
<1>12. PoolInv'
  BY <1>1, <1>4, <1>5, SendInv
<1>13. TypeOK'
  <2>1. calls' \in [Call -> {Idle} \cup Collecting \cup Gating \cup Starting]
    BY <1>1, <1>5 DEF TypeOK
  <2>2. Len(handed') <= MaxWorks
    BY <1>4, <1>7 DEF id
  <2>. QED
    BY <1>1, <1>3, <1>5, <1>7, <1>9, <1>12, <2>1, <2>2 DEF TypeOK, PoolInv, store, headerStore, gate
<1>14. \A j \in DOMAIN unfinished' :
         \/ j = Len(unfinished') /\ unfinished'[j] = new
         \/ j < Len(unfinished') /\ j + s \in DOMAIN unfinished /\ unfinished'[j] = unfinished[j + s]
  BY <1>8, <1>10
<1>15. ListSound'
  <2>0. ListSound /\ UNCHANGED mined
    BY <1>5 DEF IInv
  <2>1. \A i \in DOMAIN unfinished : unfinished[i].id \in 1..Len(handed)
                                     /\ unfinished[i].block = handed'[unfinished[i].id]
    BY <2>0, <1>4, <1>7 DEF ListSound
  <2>2. id \in 1..id /\ 1..Len(handed) \subseteq 1..id /\ id \notin 1..Len(handed)
    BY <1>4 DEF id
  <2>3. \A i \in DOMAIN unfinished' :
          unfinished'[i].id \in DOMAIN handed' /\ unfinished'[i].block = handed'[unfinished'[i].id]
    BY <1>7, <1>11, <1>14, <2>1, <2>2
  <2>4. ASSUME NEW i \in DOMAIN unfinished', NEW j \in DOMAIN unfinished',
               unfinished'[i].id = unfinished'[j].id
        PROVE  i = j
    <3>1. CASE i = Len(unfinished') \/ j = Len(unfinished')
      BY <1>11, <1>14, <2>1, <2>2, <2>4, <3>1
    <3>2. CASE i # Len(unfinished') /\ j # Len(unfinished')
      <4>1. /\ i + s \in DOMAIN unfinished /\ j + s \in DOMAIN unfinished
            /\ unfinished[i + s].id = unfinished[j + s].id
        BY <1>14, <2>4, <3>2
      <4>2. i + s = j + s
        BY <2>0, <4>1 DEF ListSound
      <4>. QED
        BY <1>10, <4>2
    <3>. QED
      BY <3>1, <3>2
  <2>5. \A i \in DOMAIN mined : mined[i].work \in DOMAIN handed'
    BY <2>0, <1>4, <1>7, <2>2 DEF ListSound
  <2>6. ASSUME NEW i \in DOMAIN mined, NEW j \in DOMAIN unfinished'
        PROVE  mined[i].work # unfinished'[j].id
    <3>1. mined[i].work \in 1..Len(handed)
      BY <2>0, <1>4 DEF ListSound
    <3>. QED
      BY <2>0, <1>11, <1>14, <2>2, <3>1 DEF ListSound
  <2>. QED
    BY <2>0, <2>3, <2>4, <2>5, <2>6 DEF ListSound
<1>16. SolutionFitsBlock' /\ OneBlockPerWork'
  <2>1. \A i \in DOMAIN mined : mined[i].work \in DOMAIN handed
    BY DEF IInv, ListSound
  <2>. QED
    BY <1>5, <1>7, <2>1 DEF IInv, SolutionFitsBlock, OneBlockPerWork
<1>17. FreshOrCarried'
  <2> DEFINE Listing(i, c) ==
        \/ IsFresh(handed'[i], c)
        \/ handed'[i].headers[c] = {Newest(Headers[handed'[i].prev][c])}
        \/ /\ i > 1 /\ Count(handed'[i - 1]) < MaxCount
           /\ handed'[i].headers[c] = {Newest(handed'[i - 1].headers[c])}
  <2>1. ASSUME NEW i \in DOMAIN handed, NEW c \in Chain PROVE Listing(i, c)
    <3>1. handed'[i] = handed[i] /\ (i > 1 => handed'[i - 1] = handed[i - 1])
      BY <1>4, <1>7
    <3>. QED
      BY <3>1 DEF IInv, FreshOrCarried
  <2>2. ASSUME NEW c \in Chain PROVE Listing(id, c)
    <3>1. handed'[id] = block /\ FreshOrLast(block, c)
      BY <1>3, <1>7
    <3>2. CASE unfinishedBlock = None
      BY <3>1, <3>2 DEF FreshOrLast
    <3>3. CASE unfinishedBlock # None
      <4>1. handed # <<>> /\ unfinishedBlock = handed[Len(handed)]
        BY <3>3 DEF IInv, LastKept
      <4>2. id > 1 /\ id - 1 = Len(handed) /\ Len(handed) \in DOMAIN handed
        BY <1>4, <4>1, EmptySeq DEF id
      <4>3. handed'[id - 1] = unfinishedBlock
        BY <1>7, <4>1, <4>2
      <4>. QED
        BY <3>1, <4>2, <4>3 DEF FreshOrLast
    <3>. QED
      BY <3>2, <3>3
  <2> HIDE DEF Listing
  <2>3. ASSUME NEW i \in DOMAIN handed' PROVE i \in DOMAIN handed \/ i = id
    BY <1>4, <1>7 DEF id
  <2>4. \A i \in DOMAIN handed', c \in Chain : Listing(i, c)
    BY <2>1, <2>2, <2>3
  <2>. QED
    BY <2>4 DEF Listing, FreshOrCarried
<1>18. LastKept'
  <2>1. id \in DOMAIN handed'
    BY <1>4, <1>7 DEF id
  <2>. QED
    BY <1>5, <1>7, <2>1 DEF LastKept
<1>. QED
  BY <1>12, <1>13, <1>15, <1>16, <1>17, <1>18 DEF IInv, PoolInv

------------------------------------------------------------------------------
(***************************************************************************)
(* A solution: the entry it is for leaves the list, the others stay.       *)
(***************************************************************************)
LEMMA RemainingProperties ==
  ASSUME TypeOK, NEW i \in DOMAIN unfinished
  PROVE  /\ Remaining(i) \in Seq(Listed) /\ Len(Remaining(i)) = Len(unfinished) - 1
         /\ \A j \in DOMAIN Remaining(i) :
              /\ (IF j < i THEN j ELSE j + 1) \in DOMAIN unfinished
              /\ Remaining(i)[j] = unfinished[IF j < i THEN j ELSE j + 1]
<1> DEFINE before == SubSeq(unfinished, 1, i - 1)
           after == SubSeq(unfinished, i + 1, Len(unfinished))
<1>1. /\ unfinished \in Seq(Listed) /\ Len(unfinished) \in Nat
      /\ DOMAIN unfinished = 1..Len(unfinished) /\ i \in 1..Len(unfinished)
      /\ \A j \in 1..Len(unfinished) : unfinished[j] \in Listed
  BY LenProperties, ElementOfSeq DEF TypeOK
<1>2. /\ before \in Seq(Listed) /\ Len(before) = i - 1
      /\ \A j \in 1..i - 1 : before[j] = unfinished[j]
  <2>1. \A j \in 1..i - 1 : unfinished[j] \in Listed
    BY <1>1
  <2>2. 1 \in Int /\ i - 1 \in Int
    BY <1>1
  <2>3. /\ before \in Seq(Listed) /\ Len(before) = IF 1 <= i - 1 THEN (i - 1) - 1 + 1 ELSE 0
        /\ \A j \in 1..(i - 1) - 1 + 1 : before[j] = unfinished[1 + j - 1]
    BY <2>1, <2>2, SubSeqProperties
  <2>4. (i - 1) - 1 + 1 = i - 1 /\ \A j \in 1..i - 1 : 1 + j - 1 = j
    BY <1>1
  <2>. QED
    BY <1>1, <2>3, <2>4
<1>3. /\ after \in Seq(Listed) /\ Len(after) = Len(unfinished) - i
      /\ \A j \in 1..Len(unfinished) - i : after[j] = unfinished[i + j]
  <2>1. \A j \in i + 1..Len(unfinished) : unfinished[j] \in Listed
    BY <1>1
  <2>2. i + 1 \in Int /\ Len(unfinished) \in Int
    BY <1>1
  <2>3. /\ after \in Seq(Listed)
        /\ Len(after) = IF i + 1 <= Len(unfinished) THEN Len(unfinished) - (i + 1) + 1 ELSE 0
        /\ \A j \in 1..Len(unfinished) - (i + 1) + 1 : after[j] = unfinished[i + 1 + j - 1]
    BY <2>1, <2>2, SubSeqProperties
  <2>4. /\ Len(unfinished) - (i + 1) + 1 = Len(unfinished) - i
        /\ \A j \in 1..Len(unfinished) - i : i + 1 + j - 1 = i + j
    BY <1>1
  <2>. QED
    BY <1>1, <2>3, <2>4
<1> HIDE DEF before, after
<1>4. /\ before \o after \in Seq(Listed) /\ Len(before \o after) = Len(unfinished) - 1
      /\ \A j \in 1..Len(unfinished) - 1 :
           (before \o after)[j] = IF j <= i - 1 THEN before[j] ELSE after[j - (i - 1)]
  <2>1. /\ before \o after \in Seq(Listed) /\ Len(before \o after) = Len(before) + Len(after)
        /\ \A j \in 1..Len(before) + Len(after) :
             (before \o after)[j] = IF j <= Len(before) THEN before[j] ELSE after[j - Len(before)]
    BY <1>2, <1>3, ConcatProperties
  <2>2. Len(before) + Len(after) = Len(unfinished) - 1
    BY <1>1, <1>2, <1>3
  <2>. QED
    BY <1>2, <2>1, <2>2
<1>5. Remaining(i) = before \o after
  BY DEF Remaining, before, after
<1>6. DOMAIN Remaining(i) = 1..Len(unfinished) - 1
  BY <1>4, <1>5, LenProperties
<1>7. ASSUME NEW j \in 1..Len(unfinished) - 1
      PROVE  /\ (IF j < i THEN j ELSE j + 1) \in DOMAIN unfinished
             /\ Remaining(i)[j] = unfinished[IF j < i THEN j ELSE j + 1]
  <2>1. CASE j < i
    <3>1. j \in 1..i - 1
      BY <1>1, <2>1
    <3>. QED
      BY <1>1, <1>2, <1>4, <1>5, <2>1, <3>1
  <2>2. CASE ~(j < i)
    <3>1. j - (i - 1) \in 1..Len(unfinished) - i
      BY <1>1, <2>2
    <3>2. after[j - (i - 1)] = unfinished[i + (j - (i - 1))]
      BY <1>3, <3>1
    <3>3. i + (j - (i - 1)) = j + 1
      BY <1>1
    <3>. QED
      BY <1>1, <1>4, <1>5, <2>2, <3>2, <3>3
  <2>. QED
    BY <2>1, <2>2
<1>. QED
  BY <1>4, <1>5, <1>6, <1>7

LEMMA HandleWorkerFinishedInv ==
  ASSUME IInv, NEW c \in DOMAIN controllers, HandleWorkerFinished(c)
  PROVE  IInv'
<1> DEFINE id == Head(controllers[c].outbox)
<1>1. TypeOK /\ PoolInv /\ TakeSolution(c)
  BY DEF IInv, TypeOK, PoolInv, HandleWorkerFinished
<1>2. PoolInv' /\ id \in Nat
  BY <1>1, TakeSolutionInv, TakeSolutionType DEF PoolInv
<1>3. UNCHANGED <<store, headerStore, gate, calls, handed>>
  BY DEF HandleWorkerFinished
<1> HIDE DEF id
<1>4. CASE Candidates(id) = {} /\ UNCHANGED <<mined, unfinished, unfinishedBlock>>
  <2>1. UNCHANGED officer
    BY <1>3, <1>4 DEF officer
  <2>2. TypeOK'
    BY <1>1, <1>2, <1>3, <2>1 DEF TypeOK, PoolInv, store, headerStore, gate, officer
  <2>. QED
    BY <1>2, <2>1, <2>2, OfficerKept DEF PoolInv
<1>5. ASSUME NEW i \in Candidates(id),
             mined' = Append(mined, [work |-> id, block |-> unfinished[i].block]),
             unfinished' = Remaining(i), unfinishedBlock' = None
      PROVE  IInv'
  <2> DEFINE last == [work |-> id, block |-> unfinished[i].block]
  <2>1. i \in DOMAIN unfinished /\ unfinished[i].id = id
    BY DEF Candidates
  <2>2. last \in Mined /\ last.work = id /\ last.block = handed[id] /\ id \in DOMAIN handed
    <3>1. unfinished[i] \in Listed
      BY <1>1, <2>1, LenProperties, ElementOfSeq DEF TypeOK
    <3>2. last.block = handed[id] /\ id \in DOMAIN handed
      BY <2>1 DEF IInv, ListSound
    <3>. QED
      BY <1>2, <3>1, <3>2 DEF Mined, Listed
  <2>3. /\ unfinished' \in Seq(Listed) /\ Len(unfinished') = Len(unfinished) - 1
        /\ \A j \in DOMAIN unfinished' :
             /\ (IF j < i THEN j ELSE j + 1) \in DOMAIN unfinished
             /\ unfinished'[j] = unfinished[IF j < i THEN j ELSE j + 1]
    BY <1>1, <1>5, <2>1, RemainingProperties
  <2> HIDE DEF last
  <2>4. /\ mined \in Seq(Mined) /\ mined' \in Seq(Mined) /\ Len(mined) \in Nat
        /\ DOMAIN mined = 1..Len(mined) /\ DOMAIN mined' = 1..Len(mined) + 1
        /\ mined'[Len(mined) + 1] = last
        /\ \A j \in DOMAIN mined : mined'[j] = mined[j]
    <3>1. mined \in Seq(Mined) /\ Len(mined) \in Nat /\ DOMAIN mined = 1..Len(mined)
      BY <1>1, LenProperties DEF TypeOK
    <3>2. /\ mined' \in Seq(Mined) /\ Len(mined') = Len(mined) + 1
          /\ mined'[Len(mined) + 1] = last
          /\ \A j \in 1..Len(mined) : mined'[j] = mined[j]
      BY <1>5, <2>2, <3>1, AppendProperties DEF last
    <3>. QED
      BY <3>1, <3>2, LenProperties
  <2>5. i \in Nat /\ Len(unfinished) \in Nat /\ DOMAIN unfinished = 1..Len(unfinished)
        /\ Len(unfinished) <= MaxListed /\ MaxListed \in Nat
        /\ DOMAIN unfinished' = 1..Len(unfinished')
    BY <1>1, <2>1, <2>3, LenProperties, MiningAssumption DEF TypeOK
  <2>6. TypeOK'
    <3>1. Len(unfinished') <= MaxListed
      BY <2>3, <2>5
    <3>. QED
      BY <1>1, <1>2, <1>3, <1>5, <2>3, <2>4, <3>1 DEF TypeOK, PoolInv, store, headerStore, gate
  <2>7. \A j \in DOMAIN unfinished' : \E k \in DOMAIN unfinished : k # i /\ unfinished'[j] = unfinished[k]
    <3> SUFFICES ASSUME NEW j \in DOMAIN unfinished'
                 PROVE  \E k \in DOMAIN unfinished : k # i /\ unfinished'[j] = unfinished[k]
      OBVIOUS
    <3>1. j \in Nat /\ (IF j < i THEN j ELSE j + 1) # i
      BY <2>3, <2>5
    <3>. QED
      BY <2>3, <3>1
  <2>8. ListSound'
    <3>0. ListSound /\ UNCHANGED handed
      BY <1>3 DEF IInv
    <3>1. \A j \in DOMAIN unfinished' : unfinished'[j].id \in DOMAIN handed
                                        /\ unfinished'[j].block = handed[unfinished'[j].id]
      BY <2>7, <3>0 DEF ListSound
    <3>2. ASSUME NEW j \in DOMAIN unfinished', NEW k \in DOMAIN unfinished',
                 unfinished'[j].id = unfinished'[k].id
          PROVE  j = k
      <4> DEFINE was(n) == IF n < i THEN n ELSE n + 1
      <4>1. was(j) \in DOMAIN unfinished /\ was(k) \in DOMAIN unfinished
            /\ unfinished[was(j)].id = unfinished[was(k)].id
        BY <2>3, <3>2
      <4>2. was(j) = was(k)
        BY <3>0, <4>1 DEF ListSound
      <4>. QED
        BY <2>3, <2>5, <4>2
    <3>3. \A j \in DOMAIN mined' : mined'[j].work \in DOMAIN handed
      BY <2>2, <2>4, <3>0 DEF ListSound
    <3>4. ASSUME NEW j \in DOMAIN mined', NEW k \in DOMAIN unfinished'
          PROVE  mined'[j].work # unfinished'[k].id
      <4>1. PICK n \in DOMAIN unfinished : n # i /\ unfinished'[k] = unfinished[n]
        BY <2>7
      <4>2. unfinished[n].id # id
        BY <2>1, <3>0, <4>1 DEF ListSound
      <4>3. mined'[j].work = id \/ (j \in DOMAIN mined /\ mined'[j] = mined[j])
        BY <2>2, <2>4
      <4>. QED
        BY <3>0, <4>1, <4>2, <4>3 DEF ListSound
    <3>. QED
      BY <3>0, <3>1, <3>2, <3>3, <3>4 DEF ListSound
  <2>9. SolutionFitsBlock'
    BY <1>3, <2>2, <2>4 DEF IInv, SolutionFitsBlock
  <2>10. OneBlockPerWork'
    <3>1. \A j \in DOMAIN mined : mined[j].work # id
      BY <2>1 DEF IInv, ListSound
    <3>. QED
      BY <2>2, <2>4, <3>1 DEF IInv, OneBlockPerWork
  <2>11. FreshOrCarried' /\ LastKept'
    BY <1>3, <1>5 DEF IInv, FreshOrCarried, LastKept
  <2>. QED
    BY <1>2, <2>6, <2>8, <2>9, <2>10, <2>11 DEF IInv, PoolInv
<1>. QED
  BY <1>4, <1>5 DEF HandleWorkerFinished, id

------------------------------------------------------------------------------
LEMMA NextInv == IInv /\ [Next]_vars => IInv'
<1> SUFFICES ASSUME IInv, [Next]_vars PROVE IInv'
  OBVIOUS
<1>1. CASE Environment
  BY <1>1, EnvironmentInv
<1>2. ASSUME NEW r \in Call, Rovered(r) PROVE IInv'
  BY <1>2, GateInv, StartMiningInv DEF Rovered
<1>3. CASE Pool
  <2>1. PoolInv /\ PoolInv' /\ UNCHANGED <<store, headerStore, gate, calls, officer>>
    BY <1>3, PoolStepInv DEF Pool, PoolInv, IInv, TypeOK
  <2>2. TypeOK'
    BY <2>1 DEF IInv, TypeOK, PoolInv, store, headerStore, gate, officer
  <2>. QED
    BY <2>1, <2>2, OfficerKept DEF PoolInv
<1>4. ASSUME NEW c \in DOMAIN controllers, HandleWorkerFinished(c) PROVE IInv'
  BY <1>4, HandleWorkerFinishedInv
<1>5. CASE UNCHANGED vars
  <2>1. UNCHANGED <<store, headerStore, gate, calls, officer, poolVars>>
    BY <1>5 DEF vars
  <2>2. PoolTypeOK' /\ PoolLinked'
    BY <2>1, PoolKept DEF IInv, TypeOK
  <2>3. TypeOK'
    BY <2>1, <2>2 DEF IInv, TypeOK, store, headerStore, gate, officer
  <2>. QED
    BY <2>1, <2>2, <2>3, OfficerKept
<1>. QED
  BY <1>1, <1>2, <1>3, <1>4, <1>5 DEF Next

LEMMA Invariant == Spec => []IInv
<1>1. Init => IInv
  BY InitInv
<1>2. IInv /\ [Next]_vars => IInv'
  BY NextInv
<1>. QED
  BY <1>1, <1>2, PTL DEF Spec

(***************************************************************************)
(* The state of the officer, the calls of the rovers, the controllers and  *)
(* the workers keep their types, and the list of unfinished blocks its     *)
(* limit (MiningOfficer, WorkerPool, thread.es6).                          *)
(***************************************************************************)
THEOREM TypeCorrect == Spec => []TypeOK
<1>1. IInv => TypeOK
  BY DEF IInv
<1>. QED
  BY <1>1, Invariant, PTL

(***************************************************************************)
(* A published block is the one its solution was mined for, whatever the   *)
(* processes lose, repeat or reorder (_handleWorkerFinishedMessage).       *)
(***************************************************************************)
THEOREM SolutionCorrect == Spec => []SolutionFitsBlock
<1>1. IInv => SolutionFitsBlock
  BY DEF IInv
<1>. QED
  BY <1>1, Invariant, PTL

(***************************************************************************)
(* However many workers solve a work, one block is made of it              *)
(* (_handleWorkerFinishedMessage and its removal from _unfinished).        *)
(***************************************************************************)
THEOREM OneBlock == Spec => []OneBlockPerWork
<1>1. IInv => OneBlockPerWork
  BY DEF IInv
<1>. QED
  BY <1>1, Invariant, PTL

(***************************************************************************)
(* Work lists, per chain, headers of the range that are newer than those   *)
(* of the block it builds on, or a single one, the last of that block or   *)
(* of the work before, for any interleaving of the calls with the store    *)
(* (startMining, prepareNewBlock).                                         *)
(***************************************************************************)
THEOREM FreshCorrect == Spec => []FreshOrCarried
<1>1. IInv => FreshOrCarried
  BY DEF IInv
<1>. QED
  BY <1>1, Invariant, PTL

(***************************************************************************)
(* The controller that work is sent to is never one whose exit was handled *)
(* (WorkerPool._handlePoolExit, _handlePoolError).                         *)
(***************************************************************************)
THEOREM PoolCorrect == Spec => []PoolIsReplaced
<1>1. IInv => PoolIsReplaced
  BY DEF IInv, PoolLinked
<1>. QED
  BY <1>1, Invariant, PTL

------------------------------------------------------------------------------
(***************************************************************************)
(* The board.  Work is listed in the order of its ids, so the head of the  *)
(* list, which makes room, is the oldest on offer; and the list is as long *)
(* as the board is large, since no id is listed twice.                     *)
(***************************************************************************)
Ordered ==
  \A i, j \in DOMAIN unfinished : i < j => unfinished[i].id < unfinished[j].id

BoardInv == IInv /\ Ordered

LEMMA OfferedCounts ==
  ASSUME IInv
  PROVE  Cardinality(Offered) = Len(unfinished)
<1> DEFINE n == Len(unfinished)
           f == [i \in 1..n |-> unfinished[i].id]
<1>1. n \in Nat /\ DOMAIN unfinished = 1..n
  BY LenProperties DEF IInv, TypeOK
<1>2. IsFiniteSet(1..n) /\ Cardinality(1..n) = n
  <2>1. 1 \in Int /\ n \in Int /\ n - 1 + 1 = n
    BY <1>1
  <2>2. IsFiniteSet(1..n) /\ Cardinality(1..n) = IF 1 > n THEN 0 ELSE n - 1 + 1
    BY <2>1, FS_Interval
  <2> HIDE DEF n
  <2>. QED
    BY <1>1, <2>1, <2>2
<1>3. f \in Surjection(1..n, Offered)
  BY <1>1 DEF Surjection, Offered
<1>4. f \in Injection(1..n, Offered)
  <2>1. \A i, j \in 1..n : f[i] = f[j] => i = j
    BY <1>1 DEF IInv, ListSound
  <2>. QED
    BY <1>3, <2>1 DEF Injection, IsInjective, Surjection
<1> HIDE DEF f, n
<1>5. Cardinality(Offered) = Cardinality(1..n)
  BY <1>2, <1>3, <1>4, FS_Surjection
<1>. QED
  BY <1>2, <1>5 DEF n

(***************************************************************************)
(* WorkBoard counts with its own instance of FiniteSets.                   *)
(***************************************************************************)
LEMMA BoardCounts ==
  ASSUME NEW S
  PROVE  Board!Cardinality(S) = Cardinality(S)
BY DEF Board!Cardinality, Cardinality

(***************************************************************************)
(* What the list becomes when work is handed out: s is 1 when the head of  *)
(* a full list makes room.                                                 *)
(***************************************************************************)
LEMMA StartedList ==
  ASSUME BoardInv, NEW r \in Call, StartMining(r)
  PROVE  /\ PrepareNewBlock(r) \in NewBlock
         /\ handed' = Append(handed, PrepareNewBlock(r)) /\ mined' = mined
         /\ \E s \in {0, 1} :
              /\ Len(unfinished') = Len(unfinished) + 1 - s
              /\ IF s = 1 THEN Len(unfinished) = MaxListed ELSE Len(unfinished) < MaxListed
              /\ DOMAIN unfinished' = 1..Len(unfinished) + 1 - s
              /\ \A j \in DOMAIN unfinished' :
                   IF j + s = Len(unfinished) + 1 THEN unfinished'[j].id = Len(handed) + 1
                   ELSE j + s \in DOMAIN unfinished /\ unfinished'[j] = unfinished[j + s]
<1> DEFINE block == PrepareNewBlock(r)
           new == [id |-> Len(handed) + 1, block |-> block]
<1>1. TypeOK
  BY DEF BoardInv, IInv
<1>2. calls[r] \in Starting
  <2>1. calls[r] \in {Idle} \cup Collecting \cup Gating \cup Starting
    BY <1>1 DEF TypeOK
  <2>2. calls[r].pc = "headers"
    BY DEF StartMining
  <2>. QED
    BY <2>1, <2>2 DEF Idle, Collecting, Gating
<1>3. block \in NewBlock
  BY <1>1, <1>2, PreparedBlock
<1>4. unfinished' = ListedWith(new) /\ handed' = Append(handed, block) /\ mined' = mined
  BY DEF StartMining
<1>5. Len(handed) \in Nat /\ Len(unfinished) \in Nat /\ DOMAIN unfinished = 1..Len(unfinished)
      /\ MaxListed \in Nat
  BY <1>1, LenProperties, MiningAssumption DEF TypeOK
<1> HIDE DEF block
<1>6. new \in Listed /\ new.id = Len(handed) + 1
  BY <1>3, <1>5 DEF Listed
<1> HIDE DEF new
<1>7. /\ unfinished' \in Seq(Listed) /\ Len(unfinished') <= MaxListed
      /\ DOMAIN unfinished' = 1..Len(unfinished')
  <2>1. unfinished' \in Seq(Listed) /\ Len(unfinished') <= MaxListed
    BY <1>1, <1>4, <1>6, ListedWithType
  <2>. QED
    BY <2>1, LenProperties
<1>8. PICK s \in {0, 1} :
        /\ Len(unfinished') = Len(unfinished) + 1 - s
        /\ s = 1 => Len(unfinished) = MaxListed
        /\ \A j \in DOMAIN unfinished' :
             unfinished'[j] = IF j + s = Len(unfinished) + 1 THEN new ELSE unfinished[j + s]
  BY <1>1, <1>4, <1>6, ListedWithType
<1>9. DOMAIN unfinished' = 1..Len(unfinished) + 1 - s
  BY <1>7, <1>8
<1>10. IF s = 1 THEN Len(unfinished) = MaxListed ELSE Len(unfinished) < MaxListed
  <2>1. CASE s = 1
    BY <1>8, <2>1
  <2>2. CASE s = 0
    <3>1. Len(unfinished') = Len(unfinished) + 1
      BY <1>5, <1>8, <2>2
    <3>2. Len(unfinished) < MaxListed
      BY <1>5, <1>7, <3>1
    <3>. QED
      BY <2>2, <3>2
  <2>. QED
    BY <2>1, <2>2
<1>11. ASSUME NEW j \in DOMAIN unfinished'
       PROVE  IF j + s = Len(unfinished) + 1 THEN unfinished'[j].id = Len(handed) + 1
              ELSE j + s \in DOMAIN unfinished /\ unfinished'[j] = unfinished[j + s]
  <2>1. CASE j + s = Len(unfinished) + 1
    BY <1>6, <1>8, <2>1
  <2>2. CASE j + s # Len(unfinished) + 1
    <3>1. j + s \in DOMAIN unfinished
      BY <1>5, <1>9, <2>2
    <3>. QED
      BY <1>8, <2>2, <3>1
  <2>. QED
    BY <2>1, <2>2
<1>. QED
  BY <1>3, <1>4, <1>8, <1>9, <1>10, <1>11 DEF block

LEMMA StartMiningBoard ==
  ASSUME BoardInv, NEW r \in Call, StartMining(r)
  PROVE  Ordered' /\ Board!Next
<1> DEFINE n == Len(unfinished)
           id == Len(handed) + 1
           block == PrepareNewBlock(r)
<1>1. block \in NewBlock /\ handed' = Append(handed, block) /\ mined' = mined
  BY StartedList
<1>2. PICK s \in {0, 1} :
        /\ IF s = 1 THEN n = MaxListed ELSE n < MaxListed
        /\ DOMAIN unfinished' = 1..n + 1 - s
        /\ \A j \in DOMAIN unfinished' :
             IF j + s = n + 1 THEN unfinished'[j].id = id
             ELSE j + s \in DOMAIN unfinished /\ unfinished'[j] = unfinished[j + s]
  BY StartedList
<1>3. handed \in Seq(NewBlock) /\ Len(handed) \in Nat /\ DOMAIN handed = 1..Len(handed)
      /\ n \in Nat /\ DOMAIN unfinished = 1..n /\ MaxListed \in Nat \ {0}
  BY LenProperties, MiningAssumption DEF BoardInv, IInv, TypeOK
<1>4. \A i \in DOMAIN unfinished : unfinished[i].id \in 1..Len(handed)
  BY <1>3 DEF BoardInv, IInv, ListSound
<1>5. Cardinality(Offered) = n
  BY OfferedCounts DEF BoardInv, n
<1>6. handed' # handed
  <2>1. Len(Append(handed, block)) = Len(handed) + 1
    BY <1>1, <1>3, AppendProperties
  <2>2. \A k \in Nat : k + 1 # k
    OBVIOUS
  <2>. QED
    BY <1>1, <1>3, <2>1, <2>2, Zenon
<1> HIDE DEF n, block
<1>7. ASSUME NEW i \in DOMAIN unfinished', NEW j \in DOMAIN unfinished', i < j
      PROVE  unfinished'[i].id < unfinished'[j].id
  <2>1. i + s # n + 1
    BY <1>2, <1>3, <1>7
  <2>2. i + s \in DOMAIN unfinished /\ unfinished'[i] = unfinished[i + s]
    BY <1>2, <2>1
  <2>3. CASE j + s = n + 1
    <3>1. unfinished'[j].id = id /\ unfinished[i + s].id \in 1..Len(handed)
      BY <1>2, <1>4, <2>2, <2>3
    <3>. QED
      BY <1>3, <2>2, <3>1
  <2>4. CASE j + s # n + 1
    <3>1. j + s \in DOMAIN unfinished /\ unfinished'[j] = unfinished[j + s]
      BY <1>2, <2>4
    <3>2. i + s < j + s
      BY <1>2, <1>3, <1>7
    <3>. QED
      BY <2>2, <3>1, <3>2 DEF BoardInv, Ordered
  <2>. QED
    BY <2>3, <2>4
<1>8. n + 1 - s \in DOMAIN unfinished' /\ (n + 1 - s) + s = n + 1
  BY <1>2, <1>3
<1>9. id \in Offered'
  BY <1>2, <1>8 DEF Offered
<1>10. Offered' \subseteq {unfinished[i].id : i \in {k \in DOMAIN unfinished : k > s}} \cup {id}
  <2> SUFFICES ASSUME NEW j \in DOMAIN unfinished'
               PROVE  \/ unfinished'[j].id = id
                      \/ \E i \in DOMAIN unfinished : i > s /\ unfinished'[j].id = unfinished[i].id
    BY DEF Offered
  <2>1. j + s > s
    BY <1>2, <1>3
  <2>. QED
    BY <1>2, <2>1
<1>11. ASSUME NEW i \in DOMAIN unfinished, i > s PROVE unfinished[i].id \in Offered'
  <2>1. i - s \in DOMAIN unfinished' /\ (i - s) + s = i /\ i # n + 1
    BY <1>2, <1>3, <1>11
  <2>2. unfinished'[i - s] = unfinished[i]
    BY <1>2, <2>1
  <2>. QED
    BY <2>1, <2>2 DEF Offered
<1>12. Offered' = {unfinished[i].id : i \in {k \in DOMAIN unfinished : k > s}} \cup {id}
  BY <1>9, <1>10, <1>11
<1>13. CASE s = 0
  <2>1. {k \in DOMAIN unfinished : k > s} = DOMAIN unfinished
    BY <1>3, <1>13
  <2>2. Offered' = Offered \cup {id}
    BY <1>12, <2>1 DEF Offered
  <2>3. Cardinality(Offered) < MaxListed
    BY <1>2, <1>5, <1>13
  <2>4. Board!HandOut(block)
    BY <1>1, <2>2, <2>3, BoardCounts DEF Board!HandOut
  <2>. QED
    BY <1>1, <1>6, <1>7, <2>4 DEF Board!Next, Ordered
<1>14. CASE s = 1
  <2> DEFINE old == unfinished[1].id
  <2>1. n = MaxListed /\ 1 \in DOMAIN unfinished
    BY <1>2, <1>3, <1>14
  <2>2. \A i \in DOMAIN unfinished : i > s <=> i # 1
    BY <1>3, <1>14
  <2>3. \A i \in DOMAIN unfinished : unfinished[i].id = old => i = 1
    BY <2>1 DEF BoardInv, IInv, ListSound
  <2>4. old \in Offered /\ Offered \ {old} = {unfinished[i].id : i \in {k \in DOMAIN unfinished : k > s}}
    BY <2>1, <2>2, <2>3 DEF Offered
  <2>5. Board!Oldest(old)
    <3> SUFFICES ASSUME NEW i \in DOMAIN unfinished PROVE old <= unfinished[i].id
      BY <2>4 DEF Board!Oldest, Offered
    <3>1. old \in Nat /\ unfinished[i].id \in Nat
      BY <1>3, <1>4, <2>1
    <3>2. i = 1 \/ 1 < i
      BY <1>3
    <3>3. 1 < i => old < unfinished[i].id
      BY <2>1 DEF BoardInv, Ordered
    <3>. QED
      BY <3>1, <3>2, <3>3
  <2>6. Offered' = (Offered \ {old}) \cup {id} /\ Cardinality(Offered) = MaxListed
    BY <1>5, <1>12, <2>1, <2>4
  <2> HIDE DEF old
  <2>7. Board!HandOut(block)
    BY <1>1, <2>4, <2>5, <2>6, BoardCounts DEF Board!HandOut
  <2>. QED
    BY <1>1, <1>6, <1>7, <2>7 DEF Board!Next, Ordered
<1>. QED
  BY <1>13, <1>14

LEMMA HandleWorkerFinishedBoard ==
  ASSUME BoardInv, NEW c \in DOMAIN controllers, HandleWorkerFinished(c)
  PROVE  Ordered' /\ [Board!Next]_(Board!vars)
<1> DEFINE id == Head(controllers[c].outbox)
<1>1. handed' = handed
  BY DEF HandleWorkerFinished
<1>2. CASE UNCHANGED <<mined, unfinished>>
  BY <1>1, <1>2 DEF BoardInv, Ordered, Offered, Board!vars
<1>3. ASSUME NEW i \in Candidates(id),
             mined' = Append(mined, [work |-> id, block |-> unfinished[i].block]),
             unfinished' = Remaining(i)
      PROVE  Ordered' /\ Board!Next
  <2> DEFINE was(j) == IF j < i THEN j ELSE j + 1
  <2>1. i \in DOMAIN unfinished /\ unfinished[i].id = id /\ unfinished[i].block = handed[id]
    BY DEF Candidates, BoardInv, IInv, ListSound
  <2>2. /\ unfinished' \in Seq(Listed) /\ Len(unfinished') = Len(unfinished) - 1
        /\ \A j \in DOMAIN unfinished' :
             was(j) \in DOMAIN unfinished /\ unfinished'[j] = unfinished[was(j)]
    BY <1>3, <2>1, RemainingProperties DEF BoardInv, IInv
  <2>3. Len(unfinished) \in Nat /\ DOMAIN unfinished = 1..Len(unfinished) /\ i \in Nat /\ 1 <= i
        /\ DOMAIN unfinished' = 1..Len(unfinished) - 1
    BY <2>1, <2>2, LenProperties DEF BoardInv, IInv, TypeOK
  <2> HIDE DEF id
  <2>4. ASSUME NEW j \in DOMAIN unfinished', NEW k \in DOMAIN unfinished', j < k
        PROVE  unfinished'[j].id < unfinished'[k].id
    <3>1. was(j) < was(k)
      BY <2>3, <2>4
    <3>. QED
      BY <2>2, <3>1 DEF BoardInv, Ordered
  <2>5. \A j \in DOMAIN unfinished' : was(j) # i
    BY <2>3
  <2>6. ASSUME NEW k \in DOMAIN unfinished, k # i PROVE unfinished[k].id \in Offered'
    <3>1. PICK j \in DOMAIN unfinished' : was(j) = k
      <4>1. CASE k < i
        <5>1. k \in DOMAIN unfinished' /\ was(k) = k
          BY <2>1, <2>3, <2>6, <4>1
        <5>. QED
          BY <5>1
      <4>2. CASE k > i
        <5>1. k - 1 \in DOMAIN unfinished' /\ was(k - 1) = k
          BY <2>3, <2>6, <4>2
        <5>. QED
          BY <5>1
      <4>. QED
        BY <2>3, <2>6, <4>1, <4>2
    <3>. QED
      BY <2>2, <3>1 DEF Offered
  <2>7. ASSUME NEW j \in DOMAIN unfinished' PROVE unfinished'[j].id \in Offered \ {id}
    <3>1. unfinished[was(j)].id # id
      BY <2>1, <2>2, <2>5 DEF BoardInv, IInv, ListSound
    <3>. QED
      BY <2>2, <3>1 DEF Offered
  <2>8. Offered' = Offered \ {id} /\ id \in Offered
    BY <2>1, <2>6, <2>7 DEF Offered
  <2>9. mined' = Append(mined, [work |-> id, block |-> handed[id]])
    BY <1>3, <2>1
  <2>10. mined' # mined
    BY <2>9, LenProperties, AppendProperties DEF BoardInv, IInv, TypeOK
  <2>11. Board!Publish(id)
    BY <1>1, <2>8, <2>9 DEF Board!Publish
  <2>. QED
    BY <2>4, <2>8, <2>10, <2>11 DEF Board!Next, Ordered
<1>. QED
  BY <1>2, <1>3 DEF HandleWorkerFinished, id

LEMMA NextBoard == BoardInv /\ [Next]_vars => Ordered' /\ [Board!Next]_(Board!vars)
<1> SUFFICES ASSUME BoardInv, [Next]_vars PROVE Ordered' /\ [Board!Next]_(Board!vars)
  OBVIOUS
<1>1. CASE \E r \in Call : StartMining(r)
  BY <1>1, StartMiningBoard
<1>2. CASE \E c \in DOMAIN controllers : HandleWorkerFinished(c)
  BY <1>2, HandleWorkerFinishedBoard
<1>3. CASE ~(\E r \in Call : StartMining(r))
           /\ ~(\E c \in DOMAIN controllers : HandleWorkerFinished(c))
  <2>1. UNCHANGED <<handed, unfinished, mined>>
    BY <1>3 DEF Next, vars, Environment, PutLatest, PutParent, PutQuorum, PutChildHeaders,
         CountStored, Rovered, CollectBlock, NewRoveredBlock, ReadQuorum, ReadParent, ReadLatest,
         ReadTip, ReadHeights, Pool, officer
  <2>. QED
    BY <2>1 DEF BoardInv, Ordered, Offered, Board!vars
<1>. QED
  BY <1>1, <1>2, <1>3

(***************************************************************************)
(* The officer keeps the promise of WorkBoard, whatever the rovers, the    *)
(* tip and the pool do: a work is published at most once and as it was     *)
(* handed out, and leaves the list only for that or as the oldest of a     *)
(* full one (startMining and _handleWorkerFinishedMessage).                *)
(***************************************************************************)
THEOREM BoardCorrect == Spec => ImplementsWorkBoard
<1>1. Init => Ordered /\ Board!Init
  BY DEF Init, Ordered, Offered, Board!Init
<1>2. IInv /\ Ordered /\ [Next]_vars => Ordered' /\ [Board!Next]_(Board!vars)
  BY NextBoard DEF BoardInv
<1>. QED
  BY <1>1, <1>2, Invariant, PTL DEF Spec, ImplementsWorkBoard, Board!Spec
==============================================================================
