------------------------------ MODULE AuraAddress ------------------------------
(***************************************************************************)
(* Addresses are uninterpreted values.  NoAddress stands for Option::None  *)
(* wherever the code has an Option<Address>.                               *)
(***************************************************************************)
CONSTANT NoAddress
=============================================================================
