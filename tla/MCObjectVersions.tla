-------------------------- MODULE MCObjectVersions --------------------------
(* The requests the runs of ObjectVersions allow in each versioning status.   *)
EXTENDS ObjectVersions

\* Every request, except those that break the null version of a suspended bucket.
AllButSuspended == [s \in AllStatuses |->
                      IF s = "Suspended" THEN {"put", "deleteVersion"}
                                         ELSE Writers \cup {"get"}]
=============================================================================
