--------------------------- MODULE MCAdminReports ---------------------------
(***************************************************************************)
(* AdminReports for TLC, beside one call at a time.  The tokens, which the *)
(* administrator's queries do not read, are left out (NoTokens) while he   *)
(* reads: a bound.                                                         *)
(***************************************************************************)
EXTENDS MCRoomService, AdminReports, Functions

EveryQuery == [status |-> NoFilter, room |-> NoFilter, user |-> NoFilter,
               startDate |-> NoFilter, endDate |-> NoFilter]

MCQueries == {EveryQuery, [EveryQuery EXCEPT !.status = "PENDING", !.endDate = 3]}

MCIdOrder == CHOOSE order \in [Ids -> 1 .. Cardinality(Ids)] : IsInjective(order)

MCSpec == ReportInit /\ [][ReportNext /\ (AtDesk' \/ NoTokens')]_reportVars

MCSymmetry == Permutations(TokenIds)
=============================================================================
