--------------------------- MODULE MCPersistence ----------------------------
(* Import sections for checking Persistence. *)
EXTENDS Persistence

CONSTANTS fcoreinit, dcoreinit, fgx2

MCSections == {fcoreinit, dcoreinit, fgx2}
MCDataSections == {dcoreinit}
=============================================================================
