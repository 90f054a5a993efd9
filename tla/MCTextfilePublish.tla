--------------------------- MODULE MCTextfilePublish ---------------------------
(***************************************************************************)
(* Instances of TextfilePublish for TLC.  The helper names a .cfg gives    *)
(* are the keys of HelperCatalog!Catalog.                                  *)
(***************************************************************************)
EXTENDS TextfilePublish, HelperCatalog

MCDiscipline == [h \in Helpers |-> Catalog[h]]
MCInstalls == {<<h>> : h \in Helpers}

================================================================================
