----------------------------- MODULE StationLan -----------------------------
(***************************************************************************)
(* The Wi-Fi station of a program (network_stalan.c): active(), connect()  *)
(* and ifconfig() are sequences of commands to the CC3120, any of which    *)
(* may fail and end the call with what was done before it.  The device     *)
(* keeps role, connection policy, profiles and the network it was last on  *)
(* through a power cut.  Whether it is on a network is left out, like the  *)
(* address and the keys: which one it may join is what matters.            *)
(***************************************************************************)
EXTENDS Integers

CONSTANT Networks

ASSUME NetworksAssumption == "none" \notin Networks

VARIABLES
  nwp,       \* the network processor: stopped, or the role it runs in
  role,      \* the role it starts in
  policy,    \* it connects by itself: to its profiles, to the last network, or not
  profiles,
  last,      \* the network it joined last
  joining,   \* the network of a sl_WlanConnect it has not been told to leave
  call,      \* the next command of the program's call
  args,      \* the arguments of connect()
  touched,   \* history: connect() has set the policy once
  asked,     \* history: networks asked for with autoconnect since the last
             \* connect() that succeeded, and in it
  named      \* history: networks named to connect(), and the one the device
             \* was last on when the policy was set for the first time

stationVars == <<nwp, role, policy, profiles, last, joining, call, args, touched, asked, named>>
kept == <<role, policy, profiles>>
joined == <<last, joining>>
history == <<touched, asked, named>>

Roles == {"STA", "AP"}
NoArgs == [ssid |-> "none", autoconnect |-> FALSE]
Args == [ssid : Networks, autoconnect : BOOLEAN]

StationInit ==
  /\ nwp = "stopped"
  /\ role \in Roles
  /\ policy \in {"auto", "fast", "none"}
  /\ profiles \in SUBSET Networks
  /\ last \in Networks \cup {"none"} /\ joining = "none"
  /\ call = "no" /\ args = NoArgs
  /\ touched = FALSE /\ asked = {} /\ named = {}

Up == nwp # "stopped"

\* A device that stops forgets the network it was told to join.
StopForgets ==
  /\ joining' = IF nwp' = "stopped" THEN "none" ELSE joining
  /\ last' = last

-----------------------------------------------------------------------------
(* active() *)

\* active(True) starts a device that does not answer as started.  On one that
\* does it changes nothing, whatever the role, and its result is what the
\* variable happened to hold.
ActiveOn ==
  /\ call = "no"
  /\ call' \in IF Up THEN {"start", "no"} ELSE {"start"}
  /\ UNCHANGED <<nwp, kept, joined, args, history>>

\* active(False); a failure is not noticed.
ActiveOff ==
  /\ call = "no"
  /\ nwp' \in {"stopped", nwp}
  /\ StopForgets
  /\ UNCHANGED <<kept, call, args, history>>

\* sl_Start; a device in another role is to be restarted.
StartDevice ==
  /\ call = "start"
  /\ ~Up
  /\ nwp' = role
  /\ call' = IF role = "STA" THEN "no" ELSE "set mode"
  /\ UNCHANGED <<kept, joined, args, history>>

SetMode ==
  /\ call = "set mode"
  /\ Up
  /\ role' = "STA"
  /\ call' = "stop"
  /\ UNCHANGED <<nwp, policy, profiles, joined, args, history>>

StopDevice ==
  /\ call = "stop"
  /\ Up
  /\ nwp' = "stopped"
  /\ StopForgets
  /\ call' = "restart"
  /\ UNCHANGED <<kept, args, history>>

Restart ==
  /\ call = "restart"
  /\ ~Up
  /\ nwp' = role
  /\ call' = "no"
  /\ UNCHANGED <<kept, joined, args, history>>

\* A command of active() fails.
ActiveFails ==
  /\ call \in {"start", "set mode", "stop", "restart"}
  /\ call' = "no"
  /\ UNCHANGED <<nwp, kept, joined, args, history>>

-----------------------------------------------------------------------------
(* connect() *)

Connect(a) ==
  /\ call = "no"
  /\ call' = "disconnect"
  /\ args' = a
  /\ asked' = IF a.autoconnect THEN asked \cup {a.ssid} ELSE asked
  /\ named' = named \cup {a.ssid}
  /\ UNCHANGED <<nwp, kept, joined, touched>>

\* A command of connect() succeeds, and one of `next` is the next.
Command(this, next) ==
  /\ call = this
  /\ Up
  /\ call' \in next
  /\ args' = IF call' = "no" THEN NoArgs ELSE args
  /\ UNCHANGED <<nwp, role>>

\* Variant: the connection is ended and the policy left until the end.
LeaveNetworkOnly ==
  /\ Command("disconnect", {"dhcp"})
  /\ joining' = "none"
  /\ touched' = TRUE
  /\ UNCHANGED <<policy, profiles, last, asked, named>>

LeaveNetwork ==
  /\ Command("disconnect", {"first policy"})
  /\ joining' = "none"
  /\ UNCHANGED <<policy, profiles, last, history>>

\* Fast connect: from here on the device by itself goes back to the last network.
FirstPolicy ==
  /\ Command("first policy", {"dhcp"})
  /\ policy' = "fast"
  /\ touched' = TRUE
  /\ named' = IF touched THEN named ELSE named \cup ({last} \cap Networks)
  /\ UNCHANGED <<profiles, joined, asked>>

SetDhcp ==
  /\ Command("dhcp", IF args.autoconnect THEN {"delete"} ELSE {"policy"})
  /\ UNCHANGED <<policy, profiles, joined, history>>

DeleteProfiles ==
  /\ Command("delete", {"add"})
  /\ profiles' = {}
  /\ UNCHANGED <<policy, joined, history>>

AddProfile ==
  /\ Command("add", {"policy"})
  /\ profiles' = profiles \cup {args.ssid}
  /\ UNCHANGED <<policy, joined, history>>

\* With enterprise security the authentication of the server is set as well.
LastPolicy ==
  /\ Command("policy", {"server", "connect"})
  /\ policy' = IF args.autoconnect THEN "auto" ELSE "none"
  /\ UNCHANGED <<profiles, joined, history>>

SetServer ==
  /\ Command("server", {"connect"})
  /\ UNCHANGED <<policy, profiles, joined, history>>

StartConnecting ==
  /\ Command("connect", {"no"})
  /\ asked' = IF args.autoconnect THEN {args.ssid} ELSE {}
  /\ joining' = args.ssid
  /\ UNCHANGED <<policy, profiles, last, touched, named>>

\* A command of connect() fails, and the program catches the exception.
ConnectFails ==
  /\ call \in {"disconnect", "first policy", "dhcp", "delete", "add", "policy", "server",
               "connect"}
  /\ call' = "no" /\ args' = NoArgs
  /\ UNCHANGED <<nwp, kept, joined, history>>

ConnectStep ==
  \/ LeaveNetwork \/ FirstPolicy \/ SetDhcp \/ DeleteProfiles \/ AddProfile
  \/ LastPolicy \/ SetServer \/ StartConnecting \/ ConnectFails

-----------------------------------------------------------------------------
(* disconnect(), and ifconfig() with arguments, which restarts the device   *)
(* whatever the commands say.                                               *)

LeaveByCall ==
  /\ call = "no"
  /\ Up
  /\ joining' = "none"
  /\ UNCHANGED <<nwp, kept, last, call, args, history>>

Ifconfig ==
  /\ call = "no"
  /\ call' = "ifconfig stop"
  /\ UNCHANGED <<nwp, kept, joined, args, history>>

IfconfigStop ==
  /\ call = "ifconfig stop"
  /\ nwp' \in {"stopped", nwp}
  /\ StopForgets
  /\ call' = "ifconfig start"
  /\ UNCHANGED <<kept, args, history>>

IfconfigStart ==
  /\ call = "ifconfig start"
  /\ nwp' \in IF Up THEN {nwp} ELSE {"stopped", role}
  /\ call' = "no"
  /\ UNCHANGED <<kept, joined, args, history>>

-----------------------------------------------------------------------------

StationProgram ==
  \/ ActiveOn \/ ActiveOff
  \/ StartDevice \/ SetMode \/ StopDevice \/ Restart \/ ActiveFails
  \/ \E a \in Args : Connect(a)
  \/ ConnectStep
  \/ LeaveByCall
  \/ Ifconfig \/ IfconfigStop \/ IfconfigStart

\* The networks the device chooses from by itself: those of its profiles, or the
\* one it was last on.
OwnChoice == CASE policy = "auto" -> profiles
               [] policy = "fast" -> {last} \cap Networks
               [] policy = "none" -> {}

\* The device joins a network of its own choice or the one it was told to join.
DeviceJoins(n) ==
  /\ nwp = "STA"
  /\ n \in OwnChoice \cup {joining}
  /\ last' = n
  /\ UNCHANGED <<nwp, kept, joining, call, args, history>>

\* The device stops by itself.
DeviceStops ==
  /\ Up
  /\ nwp' = "stopped"
  /\ StopForgets
  /\ UNCHANGED <<kept, call, args, history>>

\* Power is lost and comes back.
StationPowerCycle ==
  /\ nwp' = "stopped"
  /\ StopForgets
  /\ call' = "no" /\ args' = NoArgs
  /\ UNCHANGED <<kept, history>>

StationDevice ==
  \/ \E n \in Networks : DeviceJoins(n)
  \/ DeviceStops \/ StationPowerCycle

-----------------------------------------------------------------------------
(* Properties *)

StationTypeOK ==
  /\ nwp \in {"stopped"} \cup Roles /\ role \in Roles
  /\ policy \in {"auto", "fast", "none"}
  /\ profiles \in SUBSET Networks
  /\ last \in Networks \cup {"none"} /\ joining \in Networks \cup {"none"}
  /\ call \in {"no", "start", "set mode", "stop", "restart", "disconnect", "first policy",
               "dhcp", "delete", "add", "policy", "server", "connect", "ifconfig stop",
               "ifconfig start"}
  /\ args \in Args \cup {NoArgs}
  /\ touched \in BOOLEAN /\ asked \in SUBSET Networks /\ named \in SUBSET Networks

\* Wherever a call of connect() failed and whenever power was lost, a device
\* that connects to its profiles by itself has one, for which a program asked,
\* and not one from before a connect() that succeeded.  A device that a failure
\* has left in fast connect goes back to the network it was last on: one named
\* to a connect(), with autoconnect or not, or the one it was last on when the
\* first of them set the policy, and no other from before.
ConnectsAsAsked ==
  touched => /\ policy = "auto" => \E n \in asked : profiles = {n}
             /\ OwnChoice \subseteq named

-----------------------------------------------------------------------------
(* Why they hold *)

\* connect() holds the policy that does not look at the profiles while it changes
\* them, and gives it back with the one profile it was asked for; what is asked
\* for is asked until the call has succeeded.  What the device was last on when
\* the policy is first set is counted as named, and from then on its own choice
\* and the network it is told to join are both named.
StationInv ==
  /\ call \in {"dhcp", "delete", "add", "policy"} => touched /\ policy = "fast"
  /\ call \in {"disconnect", "first policy", "dhcp", "delete", "add", "policy", "server",
                "connect"} =>
       args \in Args /\ (args.autoconnect => args.ssid \in asked)
  /\ call \in {"delete", "add"} => args.autoconnect
  /\ call = "add" => profiles = {}
  /\ call = "policy" /\ args.autoconnect => profiles = {args.ssid}
  /\ call \in {"server", "connect"} /\ args.autoconnect => policy = "auto" /\ profiles = {args.ssid}
  /\ call \in {"server", "connect"} /\ ~args.autoconnect => policy = "none"
  /\ asked \subseteq named
  /\ args \in Args => args.ssid \in named
  /\ joining \in Networks => joining \in named
  /\ touched /\ last \in Networks => last \in named
  /\ touched /\ policy = "auto" => \E n \in asked : profiles = {n}
=============================================================================
