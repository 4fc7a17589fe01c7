------------------------------ MODULE MCExecutor ------------------------------
EXTENDS Executor
===============================================================================
