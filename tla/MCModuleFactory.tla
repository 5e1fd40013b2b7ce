--------------------------- MODULE MCModuleFactory ---------------------------
(****************************************************************************)
(* The server with the adapter and the service, and what a load command     *)
(* may name: a good module, one of two that depend on each other, and one   *)
(* that depends on a module that is not installed.                          *)
(****************************************************************************)
EXTENDS ModuleFactory

MCInstalled == {"adapter", "svc", "x", "y", "z"}
MCMods == MCInstalled \cup {"absent"}
MCDeclared == [m \in MCMods |->
    CASE m = "adapter" -> {}
      [] m = "svc" -> {"adapter"}
      [] m = "x" -> {"adapter", "svc"}
      [] m = "y" -> {"z", "y"}
      [] m = "z" -> {"y", "adapter", "absent"}
      [] m = "absent" -> {}]
MCRoots == <<"adapter", "svc">>
MCHost == "svc"

=============================================================================
