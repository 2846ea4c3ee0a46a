-------------------------------- MODULE MCRpc ---------------------------------
(* Two threads that call one method, over two connections.                    *)
EXTENDS Rpc

CONSTANTS c1, c2, login
MCCallers == {c1, c2}
MCMethods == {login}
=============================================================================
