----------------------------- MODULE PeerServer -----------------------------
(***************************************************************************)
(* The server to which other consumers forward their calls                 *)
(* (splitter-peer): a task that accepts until its shutdown signal comes,   *)
(* and then finishes what it has begun; and the handle that sends the      *)
(* signal and awaits the task, or, when it is dropped, aborts it.          *)
(*                                                                         *)
(* tonic (external) serves each connection in a task of its own: an abort  *)
(* stops the accepting, and cuts no request short by itself.               *)
(***************************************************************************)
EXTENDS Naturals

CONSTANT MaxRequests   \* bound: requests that are served at a time

ASSUME MaxRequestsAssumption == MaxRequests \in Nat

VARIABLES
  server,     \* the server's task
  signal,     \* the oneshot sender has been used, or dropped
  abort,      \* the task has been aborted
  requests,   \* the requests that are being served
  cut         \* history: requests were cut short

peerVars == <<server, signal, abort, requests, cut>>

PeerTypeOK ==
  /\ server \in {"none", "accepting", "finishing", "ended", "failed", "aborted"}
  /\ signal \in BOOLEAN /\ abort \in BOOLEAN
  /\ requests \in 0..MaxRequests
  /\ cut \in BOOLEAN

PeerInit ==
  /\ server = "none"
  /\ signal = FALSE /\ abort = FALSE
  /\ requests = 0 /\ cut = FALSE

Running == server \in {"accepting", "finishing"}
Ended == server \in {"ended", "failed", "aborted"}
ServerAt(from, to) == server = from /\ server' = to
-----------------------------------------------------------------------------
(* The handle.                                                             *)

Serve == ServerAt("none", "accepting") /\ UNCHANGED <<signal, abort, requests, cut>>

\* shutdown() that awaits the task and has not told it.
SignalUnsent == UNCHANGED peerVars

\* The first half of shutdown().
Signal == signal' = TRUE /\ UNCHANGED <<server, abort, requests, cut>>

\* Drop without shutdown().
DropServer ==
  /\ signal' = TRUE /\ abort' = TRUE
  /\ UNCHANGED <<server, requests, cut>>
-----------------------------------------------------------------------------
(* The server's task and its callers.                                      *)

Request ==
  /\ server = "accepting" /\ requests < MaxRequests
  /\ requests' = requests + 1
  /\ UNCHANGED <<server, signal, abort, cut>>

Answer ==
  /\ requests > 0 /\ requests' = requests - 1
  /\ UNCHANGED <<server, signal, abort, cut>>

SeeSignal ==
  /\ signal /\ ServerAt("accepting", "finishing")
  /\ UNCHANGED <<signal, abort, requests, cut>>

Finish ==
  /\ requests = 0 /\ ServerAt("finishing", "ended")
  /\ UNCHANGED <<signal, abort, requests, cut>>

SeeAbort ==
  /\ abort /\ Running /\ server' = "aborted"
  /\ UNCHANGED <<signal, abort, requests, cut>>

Fail ==
  /\ Running /\ server' = "failed"
  /\ UNCHANGED <<signal, abort, requests, cut>>

ServerTask == SeeSignal \/ Finish \/ SeeAbort

\* The process ends, and with it all that is still served.
Perish ==
  /\ server' = IF Running THEN "aborted" ELSE server
  /\ requests' = 0 /\ cut' = (cut \/ requests > 0)
  /\ UNCHANGED <<signal, abort>>
=============================================================================
