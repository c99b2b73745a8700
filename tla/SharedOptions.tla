--------------------------- MODULE SharedOptions ---------------------------
(***************************************************************************)
(* Module Builders under a name, so that a module with variables of its    *)
(* own can speak of the Options too: CertWatch_proofs has its theorems,    *)
(* and Builders.cfg runs it from here.                                     *)
(***************************************************************************)
CONSTANTS
    Given,        \* good values the program passes
    MaxCalls      \* bound: calls of the program

VARIABLES heap, objects, rejected, sessions, receiver, calls

Options == INSTANCE Builders

OptionsSpec == Options!Spec

(* A call changes its receiver alone, but for what Clone and Build share    *)
(* (options.go:193, builder.go:291, builder.go:480).                        *)
OthersKept == Options!OthersKept

(* Options that AddSession takes are usable (options.go:58-154).            *)
AddedIsUsable == Options!AddedIsUsable

=============================================================================
