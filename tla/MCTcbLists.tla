---- MODULE MCTcbLists ----
EXTENDS TcbLists
====
