-------------------------- MODULE MCServiceLifecycle --------------------------
EXTENDS ServiceLifecycle, TLC

(* A configured client id against a random one, with other descriptors; a  *)
(* gateway that only reports its presence; one without the hub.            *)
MCConfigs ==
    {[hub |-> "on", client |-> "c1", descriptor |-> "d1", password |-> TRUE, autoSync |-> TRUE],
     [hub |-> "on", client |-> None, descriptor |-> "d2", password |-> FALSE, autoSync |-> TRUE],
     [hub |-> "presence", client |-> None, descriptor |-> "d1", password |-> FALSE, autoSync |-> FALSE],
     [hub |-> "off", client |-> None, descriptor |-> "d1", password |-> FALSE, autoSync |-> FALSE]}
=============================================================================
