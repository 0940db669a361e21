----------------------------- MODULE MCAgentMain -----------------------------
(* An instance of AgentMain: a built-in module, two modules that share a tool *)
(* and a capability, a withheld one, and environments on both sides of every  *)
(* limit of the configuration.                                                *)
EXTENDS AgentMain

MCModules == {"network.dns", "nmap.discovery", "nmap.services", "traffic.zeek"}
MCTools == {"nmap", "zeek"}
MCRequiredTool ==
  [m \in MCModules |-> CASE m = "network.dns" -> None
                         [] m = "traffic.zeek" -> "zeek"
                         [] OTHER -> "nmap"]
MCCapability ==
  [m \in MCModules |-> CASE m = "network.dns" -> "dns"
                         [] m = "traffic.zeek" -> "zeek"
                         [] OTHER -> "nmap"]
MCRank ==
  [m \in MCModules |-> CASE m = "network.dns" -> 1 [] m = "nmap.discovery" -> 2
                         [] m = "nmap.services" -> 3 [] OTHER -> 4]
MCEnvironments ==
  {e \in [Settings -> -1 .. 5] :
     /\ e["jobs"] \in {-1, 4}
     /\ e["heartbeat"] \in {0, 1, 5}
     /\ e["poll"] \in {0, 1}}
MCDefaults == [s \in Settings |-> CASE s = "jobs" -> 2 [] s = "heartbeat" -> 3 [] OTHER -> 2]
=============================================================================
