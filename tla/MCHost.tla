------------------------------- MODULE MCHost -------------------------------
(* TLC's instance of Startup and of the three installations of Installs, none   *)
(* of which shares state with another: in a behaviour one of the four moves.     *)
EXTENDS Startup

CONSTANT Installers
VARIABLES part, template, staging, at, met, tunnel, fetching,
          exe, aside, download, updating, platform

I == INSTANCE Installs

installs == <<template, staging, at, met, tunnel, fetching,
              exe, aside, download, updating, platform>>

InstallsAreWhole == I!InstallsAreWhole

\* A daemon that serves one account, and a build host.
Pool(min, max, provider, mac) ==
  [name |-> "p", min |-> min, max |-> max, provider |-> provider,
   blocks |-> IF provider = "docker" THEN {"docker"} ELSE {}, mac |-> mac]

File(owners, pools) ==
  [is |-> "config", account |-> owners, auth |-> {"token"}, group |-> FALSE,
   vars |-> {}, pools |-> pools]

MCTypeOf == [acme |-> "Organization", ann |-> "User"]
MCWritten == {File({"org", "owner"}, {Pool(1, 3, "docker", FALSE)})}
MCAnswers == {[group |-> TRUE, pools |-> {Pool(2, 1, "process", TRUE)}]}

AtRest == accepted = {} /\ vault = Nothing /\ file = Nothing

HostInit ==
  /\ Init /\ I!Init
  /\ \/ part = "startup" /\ platform = "linux"
     \/ part \in {"template", "tunnel", "update"} /\ AtRest

HostNext ==
  /\ UNCHANGED part
  /\ \/ part = "startup" /\ Next /\ UNCHANGED installs
     \/ part = "template" /\ (\E p \in Installers : I!Install(p)) /\ UNCHANGED vars
     \/ part = "tunnel" /\ I!Tunnel /\ UNCHANGED vars
     \/ part = "update" /\ I!SelfUpdate /\ UNCHANGED vars

HostSpec ==
  /\ HostInit /\ [][HostNext]_<<vars, installs, part>>
  /\ part = "startup" => Fairness
=============================================================================
