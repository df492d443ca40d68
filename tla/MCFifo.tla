-------------------------------- MODULE MCFifo --------------------------------
(* Clients for the model checking of FifoClient.                           *)
EXTENDS FifoClient

Inside == 2 .. Depth - 2     \* where the flags survive a push with a pop
=============================================================================
