-------------------------- MODULE MCNotebookSession --------------------------
(* Model checking of NotebookSession.  The fuel pays for three iterations  *)
(* of step, enough for a host call in a coroutine and the return of the    *)
(* cell, and few enough that it also runs out at any point of a cell.      *)
EXTENDS NotebookSession

(* A limit below zero pays for nothing.                                    *)
MCFuelLimits == {-4, DefaultFuelLimit}
MCSlices == {8}
==============================================================================
