----------------------------- MODULE Membership -----------------------------
(***************************************************************************)
(* A consumer that serves its peers, from start to end: the program of     *)
(* examples/peer_server.rs.  It binds the server to learn the endpoint,    *)
(* joins with that endpoint, waits for ctrl-c, drains the Dispatcher, and  *)
(* shuts the server down.  As long as the coordinator holds the session it *)
(* tells the other consumers to call that endpoint.                        *)
(*                                                                         *)
(* Of the Dispatcher and its driver only what they owe the session is      *)
(* here: the driver leaves when it is asked to, or fails, or, asked at the *)
(* wrong moment (see Driver), does neither.                                *)
(***************************************************************************)
EXTENDS Session, PeerServer

VARIABLES
  main,      \* where the program is
  gaveUp,    \* history: drain() has timed out
  outcome    \* what peer.shutdown() has returned, if it has

mainVars == <<main, gaveUp, outcome>>
vars == <<sessionVars, peerVars, mainVars>>

TypeOK ==
  /\ SessionTypeOK /\ PeerTypeOK
  /\ main \in {"start", "bound", "online", "draining", "stopping", "leaving", "exited"}
  /\ gaveUp \in BOOLEAN
  /\ outcome \in {"none", "ok", "error"}

Init ==
  /\ SessionInit /\ PeerInit
  /\ main = "start" /\ gaveUp = FALSE /\ outcome = "none"
-----------------------------------------------------------------------------
MainAt(from, to) == main = from /\ main' = to

BindFails ==
  /\ MainAt("start", "leaving")
  /\ UNCHANGED <<sessionVars, peerVars, gaveUp, outcome>>

Bind ==
  /\ MainAt("start", "bound") /\ Serve
  /\ UNCHANGED <<sessionVars, gaveUp, outcome>>

\* connect() or build() fails: `?` drops the server on the way out.
JoinFails ==
  /\ MainAt("bound", "leaving") /\ DropServer
  /\ UNCHANGED <<sessionVars, gaveUp, outcome>>

GoOnline ==
  /\ MainAt("bound", "online") /\ Join
  /\ UNCHANGED <<peerVars, gaveUp, outcome>>

\* The server shut down ahead of the drain.
CtrlCStopsFirst ==
  /\ MainAt("online", "draining") /\ Signal
  /\ UNCHANGED <<sessionVars, gaveUp, outcome>>

CtrlC ==
  /\ MainAt("online", "draining")
  /\ UNCHANGED <<sessionVars, peerVars, gaveUp, outcome>>

\* ctrl_c() fails: `?` drops the server, and the Dispatcher without a drain.
CtrlCFails ==
  /\ MainAt("online", "leaving") /\ DropServer
  /\ UNCHANGED <<sessionVars, gaveUp, outcome>>

\* The driver answers the shutdown of its handle.
DriverLeaves ==
  /\ main \in {"draining", "stopping"} /\ Leave
  /\ UNCHANGED <<peerVars, mainVars>>

DriverFails ==
  /\ client = "on" /\ Break("failed")
  /\ UNCHANGED <<peerVars, mainVars>>

\* drain() is back: the driver has left, and the server's turn has come.
DrainDone ==
  /\ MainAt("draining", "stopping")
  /\ client = "left"
  /\ Signal
  /\ UNCHANGED <<sessionVars, gaveUp, outcome>>

\* drain() gives up after its timeout, leaves the driver to itself, and says Ok.
DrainGivesUp ==
  /\ MainAt("draining", "stopping")
  /\ client = "on" /\ gaveUp' = TRUE
  /\ Signal
  /\ UNCHANGED <<sessionVars, outcome>>

\* drain() returns the driver's error, and `?` drops the server.
DrainFails ==
  /\ MainAt("draining", "leaving")
  /\ client = "failed"
  /\ DropServer
  /\ UNCHANGED <<sessionVars, gaveUp, outcome>>

\* shutdown() that does not await the server's task.
StopReturnsAtOnce ==
  /\ MainAt("stopping", "leaving")
  /\ outcome' = "ok"
  /\ UNCHANGED <<sessionVars, peerVars, gaveUp>>

\* The second half of shutdown(): a task that was aborted is Ok, too.
StopReturns ==
  /\ MainAt("stopping", "leaving") /\ Ended
  /\ outcome' = IF server = "failed" THEN "error" ELSE "ok"
  /\ UNCHANGED <<sessionVars, peerVars, gaveUp>>

\* The process ends, and whatever the client has not written to the stream.
Exit ==
  /\ MainAt("leaving", "exited") /\ Perish
  /\ Break(IF client = "on" THEN "failed" ELSE client)
  /\ UNCHANGED <<gaveUp, outcome>>

Tick == SessionTick /\ UNCHANGED <<peerVars, mainVars>>
-----------------------------------------------------------------------------
Drain == DrainDone \/ DrainGivesUp \/ DrainFails
Program == BindFails \/ Bind \/ JoinFails \/ GoOnline \/ Drain \/ StopReturns \/ Exit

DriverTask == (Heartbeat \/ Answered) /\ UNCHANGED <<peerVars, mainVars>>
Coordinator == (\E t \in Ttl : Arrive(t)) /\ UNCHANGED <<peerVars, mainVars>>
Peers == (Request \/ Answer \/ Fail) /\ UNCHANGED <<sessionVars, mainVars>>
Server == ServerTask /\ UNCHANGED <<sessionVars, mainVars>>

Next ==
  \/ Program \/ CtrlC \/ CtrlCFails
  \/ DriverTask \/ DriverLeaves \/ DriverFails \/ Coordinator
  \/ Peers \/ Server \/ Tick

Spec == Init /\ [][Next]_vars

(* The tasks are polled, drain() has a timeout, frames are not on their    *)
(* way for ever and time passes.  Nobody owes a ctrl-c, an answer to a     *)
(* request, or a driver that leaves.                                       *)
FairSpec ==
  /\ Spec
  /\ WF_vars(Program) /\ WF_vars(Server)
  /\ WF_vars(DriverTask) /\ WF_vars(Coordinator) /\ WF_vars(Tick)
-----------------------------------------------------------------------------
(* As long as the coordinator sends the peers here somebody answers them:  *)
(* the server is bound before the consumer joins, and stops accepting only *)
(* when the farewell has been sent.  The exceptions are a server that has  *)
(* failed, a drain that has timed out with the driver left alone in its    *)
(* session, a driver that has failed, and a program on its way out, with   *)
(* an error, or with a farewell that the stream has not taken yet          *)
(* (examples/peer_server.rs:70-88, 104-109; dispatcher.rs:154-174).        *)
FarewellSent == \E i \in DOMAIN up : up[i].kind = "closed"

AdvertisedIsServed ==
  standing = "held" =>
    \/ server = "accepting" \/ FarewellSent
    \/ server = "failed" \/ gaveUp \/ client = "failed"
    \/ main \in {"leaving", "exited"}

(* A shutdown that returns Ok has cut nobody short: no request is being    *)
(* served when the process ends (splitter-peer lib.rs:105-123).            *)
ShutdownIsGraceful == outcome = "ok" => requests = 0 /\ ~cut

(* The order behind both: what the server, the session and the outcome are *)
(* at each stage of the program.                                           *)
InOrder ==
  /\ main = "start" => server = "none" /\ ~signal
  /\ main \in {"bound", "online", "draining"} =>
       server \in {"accepting", "failed"} /\ ~signal
  /\ main \in {"start", "bound"} => client = "off"
  /\ main = "stopping" => client = "left" \/ gaveUp
  /\ main \notin {"leaving", "exited"} => ~abort /\ outcome = "none"
  /\ client = "off" => standing = "none" /\ up = <<>>
  /\ client = "left" /\ standing # "closed" => FarewellSent \/ main = "exited"
  /\ server \in {"none", "ended"} => requests = 0
  /\ server = "aborted" => abort \/ main = "exited"
  /\ cut => main = "exited"
  /\ outcome = "ok" => server = "ended" /\ ~cut

(* What every step preserves.                                              *)
IInv == TypeOK /\ SessionIInv /\ InOrder

(* ctrl-c ends the program, whatever the driver, the coordinator and the   *)
(* stream do, unless the peers keep a request open for ever                *)
(* (examples/peer_server.rs:104-109; dispatcher.rs:157-164).               *)
CtrlCEnds ==
  []<>(requests = 0) => (main = "draining" ~> main = "exited")
=============================================================================
