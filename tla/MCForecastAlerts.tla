--------------------------- MODULE MCForecastAlerts ---------------------------
(* The forecast task with two of the stations of one river, the second    *)
(* named like the river (Sulak on the Sulak): every alert of the river     *)
(* has its name in the title.                                              *)
EXTENDS ForecastAlerts, TLC
CONSTANTS r1, r2, miatly, sulak
RiverName == (miatly :> {miatly}) @@ (sulak :> {miatly, sulak})
===============================================================================
