---- MODULE MCRestClient ----
(* Instance of RestClient for TLC. *)
EXTENDS RestClient
====
