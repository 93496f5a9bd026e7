---------------------------- MODULE MCToolGateway ----------------------------
(* Two tool calls, which are alike, a resource read and a session of the    *)
(* host's: any two of the calls are under way at the same time.             *)
EXTENDS ToolGateway, TLC

CONSTANTS t1, t2, r1, host

MCSubjects == {t1, t2, r1, host}
MCToolCalls == {t1, t2}
MCReads == {r1}
MCSymmetry == Permutations({t1, t2})
=============================================================================
