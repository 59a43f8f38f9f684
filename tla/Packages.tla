------------------------------ MODULE Packages ------------------------------
(***************************************************************************)
(* The controller packages the build binaries assemble: the procedures     *)
(* each one exports, under the name of its source.  A caller names a       *)
(* procedure by its MAST root, which depends on the procedure's body and   *)
(* on the wire format of the assembler that made the package.              *)
(***************************************************************************)

\* darwin::controller of build_real_bodies_package, called v2 from then on.
V2 == {"compute_nav", "apply_deposit", "apply_redeem", "compute_mint_amount",
       "compute_redeem_amount", "accrue_management_fee", "receive_asset"}

\* read_pool_position asks for slot 2 by its index here and in v4 ...
V3 == V2 \cup {"read_pool_position by index", "apply_deposit_with_storage"}

V4 == V2 \cup {"read_pool_position by index", "execute_rebalance_step"}

\* ... and by the hash of its name from v5 on.
V5 == V2 \cup {"read_pool_position", "execute_rebalance_step",
               "get_target_weights", "get_fees", "set_target_weights", "set_fees",
               "get_user_position", "set_user_position"}

V6 == V5 \cup {"get_fee_recipient", "set_fee_recipient", "receive_and_credit"}

PackageNames == {"v2", "v3", "v4", "v5", "v6"}

Exported(package) ==
  CASE package = "v2" -> V2
    [] package = "v3" -> V3
    [] package = "v4" -> V4
    [] package = "v5" -> V5
    [] package = "v6" -> V6

\* The wire format rotated every root from 0.14 to 0.15.
WireFormats == {"0.14", "0.15"}

Roots(package, wire) == Exported(package) \X {wire}
=============================================================================
