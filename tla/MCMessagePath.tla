---- MODULE MCMessagePath ----
EXTENDS MessagePath
====
