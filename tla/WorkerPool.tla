------------------------------ MODULE WorkerPool ------------------------------
(***************************************************************************)
(* The processes that mine (mining/pool.es6, mining/thread.es6): the node  *)
(* forks a controller, which forks a worker per core for each work it is   *)
(* sent and kills the workers of earlier work by the name of their         *)
(* process.  Any process may die; messages to a dead one are lost.         *)
(***************************************************************************)
EXTENDS Naturals, Sequences, FiniteSets

CONSTANTS
  Worker,       \* bound on the worker processes that exist at once
  DefaultLimit, \* settings.maxWorkers of a new controller
  ConfigLimit,  \* settings.maxWorkers after the config message
  MaxForks      \* bound on the controllers that are forked

ASSUME PoolAssumption ==
  {DefaultLimit, ConfigLimit, MaxForks} \subseteq Nat \ {0} /\ IsFiniteSet(Worker)

VARIABLES
  controllers, \* every controller forked so far
  current,     \* WorkerPool._pool: the controller messages go to
  deploying,   \* running handlers of 'work' messages in controllers
  workers      \* the processes of the controllers' clusters

poolVars == <<controllers, current, deploying, workers>>

(***************************************************************************)
(* A message is the id of a work, or the configuration.                    *)
(***************************************************************************)
Config == 0

Pids == 1..MaxForks
Controller == [at : {"up", "down", "gone"}, limit : {DefaultLimit, ConfigLimit},
               inbox : Seq(Nat), outbox : Seq(Nat)]
Deployment == [at : {"kill", "count", "fork"}, ctl : Pids, work : Nat, left : Nat]
Unborn == [at |-> "none", ctl |-> 0, work |-> 0]
Process == [at : {"forked", "mining", "solved", "killed"}, ctl : Pids, work : Nat]

PoolTypeOK ==
  /\ controllers \in Seq(Controller) /\ Len(controllers) <= MaxForks
  /\ current \in DOMAIN controllers
  /\ deploying \in SUBSET Deployment
  /\ workers \in [Worker -> Process \cup {Unborn}]

Forked == [at |-> "up", limit |-> DefaultLimit, inbox |-> <<>>, outbox |-> <<>>]

Up(c) == controllers[c].at = "up"
Cluster(c) == {w \in Worker : workers[w].ctl = c}

PoolInit ==
  /\ controllers = << [Forked EXCEPT !.inbox = <<Config>>] >> /\ current = 1
  /\ deploying = {} /\ workers = [w \in Worker |-> Unborn]

------------------------------------------------------------------------------
(***************************************************************************)
(* The node's side: _sendMessage, _handlePoolError, _handlePoolExit.       *)
(* Sending to a controller that is down raises its error event, whose      *)
(* handler forks another; the exit event forks one more.  The message is   *)
(* lost, and neither of the two is sent a configuration.                   *)
(***************************************************************************)
ForkAnother(cs) ==
  /\ Len(cs) < MaxForks
  /\ controllers' = Append(cs, Forked) /\ current' = Len(cs) + 1

SendMessage(msg) ==
  /\ \/ /\ Up(current)
        /\ controllers' = [controllers EXCEPT ![current].inbox = Append(@, msg)]
        /\ UNCHANGED current
     \/ ~Up(current) /\ ForkAnother(controllers)
  /\ UNCHANGED <<deploying, workers>>

\* Mutant: the controller forked in its place is not the one sent to.
PoolExitKeepingPool(c) ==
  /\ controllers[c].at = "down" /\ Len(controllers) < MaxForks
  /\ controllers' = Append([controllers EXCEPT ![c].at = "gone"], Forked)
  /\ UNCHANGED <<current, deploying, workers>>

PoolExit(c) ==
  /\ controllers[c].at = "down"
  /\ ForkAnother([controllers EXCEPT ![c].at = "gone"])
  /\ UNCHANGED <<deploying, workers>>

TakeSolution(c) ==
  /\ controllers[c].outbox # <<>>
  /\ controllers' = [controllers EXCEPT ![c].outbox = Tail(@)]
  /\ UNCHANGED <<current, deploying, workers>>

------------------------------------------------------------------------------
(***************************************************************************)
(* A controller.  The handler of a 'work' message waits for fkill, counts  *)
(* the workers the cluster still lists and forks the missing ones, waiting *)
(* for each send; the next message is handled meanwhile.                   *)
(***************************************************************************)
TakeMessage(c) ==
  LET msg == Head(controllers[c].inbox) IN
  /\ Up(c) /\ controllers[c].inbox # <<>>
  /\ controllers' = [controllers EXCEPT ![c].inbox = Tail(@),
                       ![c].limit = IF msg = Config THEN ConfigLimit ELSE @]
  /\ deploying' = deploying \cup
       (IF msg = Config THEN {} ELSE {[at |-> "kill", ctl |-> c, work |-> msg, left |-> 0]})
  /\ UNCHANGED <<current, workers>>

(***************************************************************************)
(* fkill finds every process that has taken the title bc-miner-worker,     *)
(* whichever controller forked it.  The cluster lists a killed worker      *)
(* until its exit event.                                                   *)
(***************************************************************************)
Killed ==
  [w \in Worker |-> IF workers[w].at \in {"mining", "solved"}
                    THEN [workers[w] EXCEPT !.at = "killed"] ELSE workers[w]]

Proceed(d, next) ==
  deploying' = (deploying \ {d}) \cup (IF next.left = 0 /\ next.at = "fork" THEN {} ELSE {next})

KillEarlier(d) ==
  /\ d.at = "kill" /\ workers' = Killed
  /\ Proceed(d, [d EXCEPT !.at = "count"])
  /\ UNCHANGED <<controllers, current>>

CountWorkers(d) ==
  LET listed == Cardinality(Cluster(d.ctl))
      limit == controllers[d.ctl].limit
  IN
  /\ d.at = "count"
  /\ Proceed(d, [d EXCEPT !.at = "fork", !.left = IF listed < limit THEN limit - listed ELSE 0])
  /\ UNCHANGED <<controllers, current, workers>>

CreateThread(d, w) ==
  /\ d.at = "fork" /\ workers[w] = Unborn
  /\ workers' = [workers EXCEPT ![w] = [at |-> "forked", ctl |-> d.ctl, work |-> d.work]]
  /\ Proceed(d, [d EXCEPT !.left = @ - 1])
  /\ UNCHANGED <<controllers, current>>

(***************************************************************************)
(* The recycling timer, and the kill that follows a solution, here at any  *)
(* time while the controller has workers.                                  *)
(***************************************************************************)
PurgeWorkers(c) ==
  /\ Up(c) /\ Cluster(c) # {}
  /\ workers' = Killed /\ UNCHANGED <<controllers, current, deploying>>

(***************************************************************************)
(* A killed worker; or one that ends by itself: its timer, a failure of    *)
(* mine, a crash.                                                          *)
(***************************************************************************)
WorkerExit(w) ==
  /\ workers[w].at # "none"
  /\ workers' = [workers EXCEPT ![w] = Unborn]
  /\ UNCHANGED <<controllers, current, deploying>>

(***************************************************************************)
(* A crash, or a worker that found nothing in time: the controller reads   *)
(* the iterations of the solution null.                                    *)
(***************************************************************************)
ControllerDies(c) ==
  /\ Up(c) /\ \A k \in DOMAIN controllers : controllers[k].at # "down"
  /\ Len(controllers) + 2 <= MaxForks
  /\ controllers' = [controllers EXCEPT ![c].at = "down", ![c].inbox = <<>>]
  /\ deploying' = {d \in deploying : d.ctl # c}
  /\ workers' = [w \in Worker |-> IF workers[w].ctl = c THEN Unborn ELSE workers[w]]
  /\ UNCHANGED current

------------------------------------------------------------------------------
(***************************************************************************)
(* A worker takes the title and the message, and mines until it finds a    *)
(* solution, which its controller passes on to the node.                   *)
(***************************************************************************)
WorkerStarts(w) ==
  /\ workers[w].at = "forked"
  /\ workers' = [workers EXCEPT ![w].at = "mining"]
  /\ UNCHANGED <<controllers, current, deploying>>

Mine(w) ==
  /\ workers[w].at = "mining"
  /\ workers' = [workers EXCEPT ![w].at = "solved"]
  /\ controllers' = [controllers EXCEPT ![workers[w].ctl].outbox = Append(@, workers[w].work)]
  /\ UNCHANGED <<current, deploying>>

------------------------------------------------------------------------------
PoolStep ==
  \/ \E c \in DOMAIN controllers :
       PoolExit(c) \/ TakeMessage(c) \/ PurgeWorkers(c) \/ ControllerDies(c)
  \/ \E d \in deploying :
       KillEarlier(d) \/ CountWorkers(d) \/ \E w \in Worker : CreateThread(d, w)
  \/ \E w \in Worker : WorkerStarts(w) \/ Mine(w) \/ WorkerExit(w)
==============================================================================
