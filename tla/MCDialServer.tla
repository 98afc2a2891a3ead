---------------------------- MODULE MCDialServer ----------------------------
(***************************************************************************)
(* DialServer for TLC: a YouTube application and the system application,   *)
(* each registered with a list that matches an origin, or with one that    *)
(* does not.  An empty Origin header comes with a start alone, the only    *)
(* request whose handler looks at the origin again; the system application *)
(* is started, stopped and asked for its status.                           *)
(***************************************************************************)
EXTENDS DialServer

CONSTANTS yt, system, friend

MCCorsArgs == {{friend}, {}}
MCNoCorsArgs == {{friend}, NoList}

MCArrivals ==
  {r \in Requests :
     /\ r.origin = EmptyOrigin => r.op = "start"
     /\ r.app = system => r.op \in {"start", "status", "stop"}}
=============================================================================
