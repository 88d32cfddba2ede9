----------------------------- MODULE MCTopicQueue -----------------------------
(* Instances of TopicQueue for TLC.                                        *)
EXTENDS TopicQueue
===============================================================================
