----------------------------- MODULE MCCpuBudget -----------------------------
(* An instance of CpuBudget: three encoders and two other requests.         *)
EXTENDS CpuBudget

CONSTANTS e1, e2, e3, c1, c2
===============================================================================
