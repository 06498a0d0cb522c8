------------------------------ MODULE Channel -------------------------------
(* What the queues and channels of concurrent.hpp carry. *)

CONSTANTS
    Message,
    NoMessage   \* the outcome of a receive that returns false
=============================================================================
