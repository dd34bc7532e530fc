---------------------------- MODULE MCPythonClient ----------------------------
(***************************************************************************)
(* The application with the client of its functional tests as host         *)
(* (tests/python/apps/solana.py), sending a message of two chunks.         *)
(***************************************************************************)
EXTENDS MCLedgerApp

(* split_and_prefix_message: the header precedes every chunk.              *)
ClientApdus ==
    {More(First("SignMessage", p1, <<w1>>)),
     Extending(First("SignMessage", p1, <<w2>>))}

(* split_and_prefix_message, "Add the header to every chunk": once the     *)
(* client has sent its chunks the application holds its message.  (The     *)
(* receiver strips the header of the first chunk only.)                    *)
ClientMessageArrives ==
    cmd.state = "PayloadComplete" => cmd.message = <<w1, w2>>
=============================================================================
