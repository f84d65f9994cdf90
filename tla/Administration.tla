--------------------------- MODULE Administration ---------------------------
(***************************************************************************)
(* What administrators edit, and what members are shown meanwhile: the     *)
(* organisation with the reads scoped by it, and the catalogue.            *)
(***************************************************************************)
EXTENDS Visibility, Catalogue

allVars == <<vars, catalogueVars>>

AdministrationInit == Init /\ CatalogueInit

AdministrationNext ==
    \/ Next /\ UNCHANGED catalogueVars
    \/ CatalogueNext /\ UNCHANGED vars

AdministrationSpec ==
    /\ AdministrationInit
    /\ [][AdministrationNext]_allVars
    /\ \A r \in Requests : WF_vars(Proceed(r))

=============================================================================
