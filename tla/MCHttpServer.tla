---------------------------- MODULE MCHttpServer ----------------------------
(* Two requests on a connection. *)
EXTENDS HttpServer
=============================================================================
