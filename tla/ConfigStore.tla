----------------------------- MODULE ConfigStore -----------------------------
(* What kconfig keeps on disk, whoever writes it and whatever it writes:     *)
(* configurations by name, each with its .old, and the three files the build *)
(* reads, made from .config by silentoldconfig (scripts/kconfig/confdata.c). *)
(* One process at a time writes; it can end between any two steps.           *)
CONSTANTS
  Names,       \* names of configurations
  Config,      \* .config
  NoFile,      \* there is no such file
  Empty        \* what fopen(name, "w") leaves of a file

ASSUME ConfigAssumption == Config \in Names /\ NoFile \notin Names

VARIABLES
  now, old,    \* the contents of the file name and of name.old
  header, tristate, auto,
               \* autoconf.h, tristate.conf and auto.conf as sets of
               \* <<symbol, value>>, empty as long as there is none
  stale,       \* auto.conf is missing or older than .config
  touched,     \* symbols whose header in include/config is newer than built
  built,       \* the autoconf.h of the last build
  step,        \* what the process does next: idle, old, new, header, tristate, auto, direct
  target,      \* the file it writes
  text, pairs  \* what the temporary files hold

storeVars == <<now, old, header, tristate, auto, stale, touched, built, step, target, text, pairs>>
buildVars == <<header, tristate, auto, touched, built, pairs>>

StoreInit ==
  /\ DOMAIN now = Names
  /\ old = [f \in Names |-> NoFile]
  /\ header = {} /\ tristate = {} /\ auto = {} /\ touched = {} /\ built = {}
  /\ stale = TRUE
  /\ step = "idle"
  /\ target = Config
  /\ text = Empty
  /\ pairs = {}

\* The symbols that two configurations give different values.
Differing(a, b) == {p[1] : p \in (a \ b) \cup (b \ a)}

-----------------------------------------------------------------------------
\* conf_write: the new contents go to a temporary file of the process.
BeginWrite(f, new) ==
  /\ step = "idle"
  /\ step' = "old"
  /\ target' = f
  /\ text' = new
  /\ UNCHANGED <<now, old, stale, buildVars>>

\* Mutant of RenameOld: the file is removed.
RemoveOld ==
  /\ step = "old"
  /\ step' = "new"
  /\ now' = [now EXCEPT ![target] = NoFile]
  /\ UNCHANGED <<old, target, text, stale, buildVars>>
\* The file that was there becomes the .old one; without one nothing happens.
RenameOld ==
  /\ step = "old"
  /\ step' = "new"
  /\ now' = [now EXCEPT ![target] = NoFile]
  /\ old' = IF now[target] = NoFile THEN old ELSE [old EXCEPT ![target] = now[target]]
  /\ UNCHANGED <<target, text, stale, buildVars>>

\* Mutant of RenameNew: auto.conf still passes for up to date.
RenameNewUnseen ==
  /\ step = "new"
  /\ step' = "idle"
  /\ now' = [now EXCEPT ![target] = text]
  /\ UNCHANGED <<old, stale, target, text, buildVars>>
RenameNew ==
  /\ step = "new"
  /\ step' = "idle"
  /\ now' = [now EXCEPT ![target] = text]
  /\ stale' = (stale \/ target = Config)
  /\ UNCHANGED <<old, target, text, buildVars>>

\* conf_write_defconfig writes in place.
BeginDirect(f, new) ==
  /\ step = "idle" /\ f # Config
  /\ step' = "direct"
  /\ target' = f
  /\ text' = new
  /\ now' = [now EXCEPT ![f] = Empty]
  /\ UNCHANGED <<old, stale, buildVars>>

EndDirect ==
  /\ step = "direct"
  /\ step' = "idle"
  /\ now' = [now EXCEPT ![target] = text]
  /\ UNCHANGED <<old, target, text, stale, buildVars>>

\* Mutant of BeginAuto: conf_split_config is left out.
BeginAutoUntouched(new, touch) ==
  /\ step = "idle"
  /\ step' = "header"
  /\ pairs' = new
  /\ UNCHANGED <<now, old, stale, header, tristate, auto, touched, built, target, text>>
\* conf_write_autoconf: first the headers of what has changed are touched, then
\* the three files are made and renamed, auto.conf last.
BeginAuto(new, touch) ==
  /\ step = "idle"
  /\ step' = "header"
  /\ pairs' = new
  /\ touched' = touched \cup touch
  /\ UNCHANGED <<now, old, stale, header, tristate, auto, built, target, text>>

\* Mutant of RenameHeader: auto.conf comes first.
RenameAutoFirst ==
  /\ step = "header"
  /\ step' = "tristate"
  /\ header' = pairs /\ auto' = pairs
  /\ stale' = FALSE
  /\ UNCHANGED <<now, old, tristate, touched, built, target, text, pairs>>
RenameHeader ==
  /\ step = "header"
  /\ step' = "tristate"
  /\ header' = pairs
  /\ UNCHANGED <<now, old, stale, tristate, auto, touched, built, target, text, pairs>>

\* Mutant of RenameTristate: it stays a temporary file.
RenameNoTristate ==
  /\ step = "tristate"
  /\ step' = "auto"
  /\ UNCHANGED <<now, old, stale, header, tristate, auto, touched, built, target, text, pairs>>
RenameTristate ==
  /\ step = "tristate"
  /\ step' = "auto"
  /\ tristate' = pairs
  /\ UNCHANGED <<now, old, stale, header, auto, touched, built, target, text, pairs>>

RenameAuto ==
  /\ step = "auto"
  /\ step' = "idle"
  /\ auto' = pairs
  /\ stale' = FALSE
  /\ UNCHANGED <<now, old, header, tristate, touched, built, target, text, pairs>>

\* The process is killed, or one of its calls fails.
StopStore ==
  /\ step # "idle"
  /\ step' = "idle"
  /\ UNCHANGED <<now, old, stale, buildVars, target, text>>

\* The build makes again what depends on a touched header.
Build ==
  /\ step = "idle" /\ ~stale
  /\ built' = header
  /\ touched' = {}
  /\ UNCHANGED <<now, old, stale, header, tristate, auto, step, target, text, pairs>>

-----------------------------------------------------------------------------
\* What silentoldconfig promises: to touch all that differs from auto.conf, and
\* to come to the same values again while .config is what it was.
UpdateAuto ==
  /\ BeginAuto(pairs', touched')
  /\ Differing(auto, pairs') \subseteq touched'
  /\ ~stale => pairs' = auto

StoreNext ==
  \/ \E f \in Names : text' # NoFile /\ (BeginWrite(f, text') \/ BeginDirect(f, text'))
  \/ RenameOld \/ RenameNew \/ EndDirect
  \/ UpdateAuto
  \/ RenameHeader \/ RenameTristate \/ RenameAuto
  \/ StopStore \/ Build

\* Every way of writing configurations in which silentoldconfig keeps its
\* promise; the sessions of the configurators implement it.
StoreSpec == StoreInit /\ [][StoreNext]_storeVars

-----------------------------------------------------------------------------
\* When make sees auto.conf as up to date, the three files of the build are of
\* one configuration, however often a silentoldconfig was killed between the
\* renames at the end of conf_write_autoconf.
OneConfiguration == ~stale => header = auto /\ tristate = auto

Updating == step \in {"header", "tristate", "auto"}
\* The inductive invariant: OneConfiguration, what the temporary files hold in
\* between, and that what differs from the last build is touched at any time.
StoreInv ==
  /\ OneConfiguration
  /\ Updating /\ ~stale => pairs = auto
  /\ step \in {"tristate", "auto"} => header = pairs
  /\ step = "auto" => tristate = pairs
  /\ Updating => Differing(auto, pairs) \subseteq touched
  /\ Differing(built, auto) \subseteq touched
  /\ DOMAIN now = Names /\ DOMAIN old = Names /\ target \in Names
  /\ step = "direct" => target # Config
  /\ step \in {"old", "new"} => text # NoFile
  /\ step = "new" => now[target] = NoFile

\* Then, too, every symbol that autoconf.h gives another value than the last
\* build saw has a newer header in include/config (conf_split_config), although
\* each silentoldconfig only compares with the auto.conf it finds.
NothingMissed == ~stale => Differing(built, header) \subseteq touched

\* The configuration there is: .config or, when a process was killed between
\* the two renames of conf_write, .config.old.
Current == IF now[Config] # NoFile THEN now[Config] ELSE old[Config]

\* It is replaced as a whole by a complete new one, or stays.
AtomicSave ==
  [][Current' # Current => step = "new" /\ target = Config /\ Current' = text]_storeVars
=============================================================================
