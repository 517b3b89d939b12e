-------------------------- MODULE MCDeploymentTasks --------------------------
(***************************************************************************)
(* DeploymentTasks for TLC: four tasks, and a few shapes of what they ask  *)
(* for.                                                                    *)
(***************************************************************************)
EXTENDS DeploymentTasks

Asks(resources, download, depends, key, can) ==
    [resources |-> resources, download |-> download, depends_on |-> depends,
     dedupe_key |-> key, cancellable |-> can]

\* An installation behind its prerequisite, on a host where something else
\* installs at the same time.
Chain == <<Asks({"pkg"}, FALSE, {}, NoKey, FALSE),
           Asks({"napcat"}, TRUE, {1}, "install", TRUE),
           Asks({"napcat"}, TRUE, {}, "install", TRUE),
           Asks({"pkg"}, FALSE, {1, 2}, NoKey, TRUE)>>

\* More downloads than slots.
Downloads == <<Asks({}, TRUE, {}, NoKey, TRUE),
               Asks({"napcat"}, TRUE, {}, NoKey, TRUE),
               Asks({"pkg"}, TRUE, {}, NoKey, TRUE),
               Asks({"napcat"}, FALSE, {2}, NoKey, FALSE)>>

\* Four independent downloads.
Installs == <<Asks({}, TRUE, {}, NoKey, TRUE), Asks({}, TRUE, {}, NoKey, TRUE),
              Asks({}, TRUE, {}, NoKey, TRUE), Asks({}, TRUE, {}, NoKey, TRUE)>>

MCInstalls == {Installs}
MCRequests == {Chain, Downloads}
=============================================================================
