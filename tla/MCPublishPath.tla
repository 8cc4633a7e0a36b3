---- MODULE MCPublishPath ----
(* Instances of PublishPath for TLC. *)
EXTENDS PublishPath
====
