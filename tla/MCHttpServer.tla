---------------------------- MODULE MCHttpServer ----------------------------
(* Small instances of HttpServer for TLC.                                   *)
EXTENDS HttpServer, TLC

CONSTANTS r1, r2, r3, events, run

\* Two requests share a route, a third has one of its own.
MCKeyOf == (r1 :> events) @@ (r2 :> events) @@ (r3 :> run)

\* Anything may go wrong in one request; the other two are witnesses.
MCFaultsOf == (r1 :> HandlerFaults) @@ (r2 :> {}) @@ (r3 :> {})
=============================================================================
