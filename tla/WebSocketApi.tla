------------------------------ MODULE WebSocketApi ------------------------------
(***************************************************************************)
(* The one rule of the WebSocket interface the Realtime transports run     *)
(* into: close(code) throws, before anything else, when the code is not    *)
(* one an application may send.  `strict` says that the sockets follow it, *)
(* as the platform's do (browsers, Deno, Bun, Node); a library passed as   *)
(* webSocketFactory may take the codes of a server, 1008 and 1011, too.    *)
(***************************************************************************)
EXTENDS Naturals

MayClose(strict, code) == strict => code = 1000 \/ code \in 3000..4999
=============================================================================
