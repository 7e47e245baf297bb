------------------------------ MODULE Installs ------------------------------
(* What arc puts on a host by itself, step by step, each of which may be the   *)
(* last: the runner template (ensureTemplate, by `arc run` and `arc doctor`),   *)
(* the tunnel's program (ensureCloudflared) and arc's own program (`arc update`). *)
EXTENDS Naturals

CONSTANTS Installers   \* programs that may set up the template

VARIABLES
  template,   \* template_dir: nothing, part of a runner or all of it
  staging,    \* template_dir.download, and how much it holds
  at,         \* per installer: its next step
  met,        \* history: two were at it at a time
  tunnel,     \* ~/.arc/bin/cloudflared
  fetching,   \* the step ensureCloudflared is at
  exe, aside, \* arc's program, and what is called .old beside it
  download,   \* what `arc update` has downloaded
  updating,   \* the step it is at
  platform

templates == <<template, staging, at, met>>
tunnels   == <<tunnel, fetching>>
programs  == <<exe, aside, download, updating>>
vars      == <<templates, tunnels, programs, platform>>

Init ==
  /\ template = "none" /\ staging = "none"
  /\ at = [p \in Installers |-> "off"] /\ met = FALSE
  /\ tunnel = "none" /\ fetching = "off"
  /\ exe = "works" /\ aside = "none" /\ download = "none" /\ updating = "off"
  /\ platform \in {"linux", "darwin", "windows"}

-----------------------------------------------------------------------------
(* The runner template *)

Busy(p) == at[p] # "off"
Step(p, from, to) ==
  /\ at[p] = from /\ at' = [at EXCEPT ![p] = to]
  /\ met' = (met \/ \E q \in Installers \ {p} : Busy(p) /\ Busy(q))
  /\ UNCHANGED <<tunnels, programs, platform>>

\* An existing template is never touched; the latest release is asked for.
Look(p) ==
  /\ template = "none" /\ Step(p, "off", "clear")
  /\ UNCHANGED <<template, staging>>

\* What an earlier attempt left goes.
Clear(p) ==
  /\ Step(p, "clear", "download") /\ staging' = "empty"
  /\ UNCHANGED template

DownloadArchive(p) ==
  /\ staging # "none" /\ Step(p, "download", "extract") /\ staging' = "archive"
  /\ UNCHANGED template

Extract(p) ==
  /\ staging \in {"archive", "part", "whole"} /\ Step(p, "extract", "extracting")
  /\ staging' = "part" /\ UNCHANGED template

Extracted(p) ==
  /\ staging \in {"part", "whole"} /\ Step(p, "extracting", "check")
  /\ staging' = "whole" /\ UNCHANGED template

\* The entrypoint has to be there; it may be in a part.
CheckEntrypoint(p) ==
  /\ staging \in {"part", "whole"} /\ Step(p, "check", "rename")
  /\ UNCHANGED <<template, staging>>

\* Where the template is there by now, the directory cannot take its name.
Commit(p) ==
  /\ staging # "none" /\ template = "none" /\ Step(p, "rename", "off")
  /\ template' = (IF staging = "whole" THEN "whole" ELSE "part") /\ staging' = "none"

\* A step after that fails: what was staged is removed.
Fail(p) ==
  /\ at[p] \notin {"off", "clear"} /\ Step(p, at[p], "off")
  /\ staging' = "none" /\ UNCHANGED template

Interrupt(p) ==
  /\ Busy(p) /\ Step(p, at[p], "off")
  /\ UNCHANGED <<template, staging>>

Install(p) ==
  \/ Look(p) \/ Clear(p) \/ DownloadArchive(p) \/ Extract(p) \/ Extracted(p)
  \/ CheckEntrypoint(p) \/ Commit(p) \/ Fail(p) \/ Interrupt(p)

-----------------------------------------------------------------------------
(* cloudflared.  A file of that name is taken for it, whatever it is.          *)

Fetch(from, to) ==
  /\ fetching = from /\ fetching' = to
  /\ UNCHANGED <<templates, programs, platform>>

\* The temporary file has a name of its own, and is removed if this fails.
FetchTunnel == tunnel = "none" /\ Fetch("off", "fetched") /\ UNCHANGED tunnel
FetchFails == Fetch("fetched", "off") /\ UNCHANGED tunnel

\* On macOS it is unpacked in place; elsewhere it is renamed, then made executable.
Place ==
  /\ Fetch("fetched", "placed")
  /\ tunnel' = IF platform = "darwin" THEN "part" ELSE "inert"
Finish == Fetch("placed", "off") /\ tunnel' = "works"

\* Stopped, or unpacking failed.
FetchStops == Fetch("placed", "broken") /\ UNCHANGED tunnel

Tunnel == FetchTunnel \/ FetchFails \/ Place \/ Finish \/ FetchStops

-----------------------------------------------------------------------------
(* arc update *)

Update(from, to) ==
  /\ updating = from /\ updating' = to
  /\ UNCHANGED <<templates, tunnels, platform>>

Keep == UNCHANGED <<exe, aside>>

\* What an earlier update on Windows left is removed.
BeginUpdate ==
  /\ exe = "works" /\ Update("off", "download")
  /\ aside' = "none" /\ download' = "none" /\ UNCHANGED exe

\* What was published, or something else of the same name.
Download ==
  /\ Update("download", "verify") /\ Keep
  /\ download' \in {"works", "broken"}

\* The download is run before it takes the place of what works.
MVerifyNothing == Update("verify", "swap") /\ Keep /\ UNCHANGED download
Verify == download = "works" /\ Update("verify", "swap") /\ Keep /\ UNCHANGED download

\* One rename; Windows needs the running program out of the way first.
Swap ==
  /\ platform # "windows" /\ Update("swap", "off")
  /\ exe' = download /\ download' = "none" /\ UNCHANGED aside

MoveAside ==
  /\ platform = "windows" /\ Update("swap", "replace")
  /\ aside' = exe /\ exe' = "none" /\ UNCHANGED download

Replace ==
  /\ Update("replace", "off")
  /\ exe' = download /\ download' = "none" /\ UNCHANGED aside

RollBack ==
  /\ Update("replace", "off")
  /\ exe' = aside /\ aside' = "none" /\ download' = "none"

\* It fails or is stopped, perhaps before the download is removed.
UpdateStops ==
  /\ updating # "off" /\ Update(updating, "off") /\ Keep
  /\ download' \in {download, "none"}

SelfUpdate ==
  BeginUpdate \/ Download \/ Verify \/ Swap \/ MoveAside \/ Replace \/ RollBack \/ UpdateStops

Next == (\E p \in Installers : Install(p)) \/ Tunnel \/ SelfUpdate

Spec == Init /\ [][Next]_vars

-----------------------------------------------------------------------------

(* What counts as installed is whole, wherever an installation stops: a template, *)
(* unless two programs set it up at a time (they share the staging directory); the  *)
(* tunnel's program, unless it stops just before it is done; and arc itself, which   *)
(* works, or on Windows lies aside for somebody to put back.                           *)
InstallsAreWhole ==
  /\ template = "part" => met
  /\ tunnel \in {"part", "inert"} => fetching \in {"placed", "broken"}
  /\ exe = "works" \/ (platform = "windows" /\ exe = "none" /\ aside = "works")
=============================================================================
