---------------------------- MODULE MCPrintQueue ----------------------------
(***************************************************************************)
(* Headers and racks for the print queue: a header whose tools all differ  *)
(* and one in which two tools have one filament (aliases); a rack that     *)
(* serves every tool of both, one with two spools of a kind, one in which  *)
(* each tier of the fuzzy match finds a similar colour.                    *)
(***************************************************************************)
EXTENDS PrintQueue

Of(material, colour) == [mat |-> material, col |-> colour]

MCHeaders ==
  {[t \in Tools |-> CASE t = 0 -> Of("PLA", 0) [] t = 1 -> Of("PLA", 5) [] t = 2 -> Of("PETG", 0) [] OTHER -> Of("PLA", 8)],
   [t \in Tools |-> CASE t = 1 -> Of("PLA", 5) [] t = 3 -> Of("PLA", 8) [] OTHER -> Of("PLA", 0)]}

MCRacks ==
  {[s \in Slots |-> CASE s = 0 -> Of("PETG", 0) [] s = 1 -> Of("PLA", 0) [] s = 2 -> Of("PLA", 5) [] OTHER -> Of("PLA", 8)],
   [s \in Slots |-> CASE s = 1 -> Of("PLA", 5) [] s = 2 -> Of("PLA", 8) [] OTHER -> Of("PLA", 0)],
   [s \in Slots |-> CASE s = 0 -> Of("PLA", 1) [] s = 1 -> Of("PLA", 6) [] s = 2 -> Of("PETG", 0) [] OTHER -> None]}
=============================================================================
