---------------------------- MODULE ConfigWatch ----------------------------
(***************************************************************************)
(* The configuration watcher (internal/waf/watch.go) driving Reload: file  *)
(* events, the debounce timer, and LoadConfig reading the main file and    *)
(* the shards of tenants.d one after the other while an operator edits     *)
(* them.  Runtime models what Reload does with what LoadConfig returns.    *)
(***************************************************************************)
EXTENDS Runtime

CONSTANTS
  Main,     \* contents of the main configuration file
  Shards,   \* contents of tenants.d
  NoDir,    \* tenants.d does not exist
  Load,     \* <<main, shards>> -> what LoadConfig makes of it
  Start,    \* the files the process may start with
  MaxEdits  \* bound: edits of the files

ASSUME ConfigWatchAssumption ==
  /\ NoDir \notin Shards
  /\ Load \in [Main \X (Shards \cup {NoDir}) -> Config \cup {Invalid}]
  /\ Start \subseteq Main \X (Shards \cup {NoDir})
  /\ \A files \in Start : Load[files] \in Config
  /\ MaxEdits \in Nat

VARIABLES
  disk,     \* <<main, shards>>
  edits,    \* edits made so far
  watching, \* progress of watchConfig
  watched,  \* the entry of tenantsDir in the map watched
  inotify,  \* the kernel watches the present tenants.d
  queue,    \* events of the watcher
  timer,    \* "off": timerC is nil; "running"; "expired": a tick is in timer.C
  reading,  \* the main file LoadConfig has read, <<>> outside of LoadConfig
  loaded,   \* history: the files the latest LoadConfig has read
  missed    \* history: an edit before the watch was in place, not read since

watch == <<watching, watched, inotify, queue, timer, reading, loaded, missed>>
wvars == <<vars, disk, edits, watch>>

WatchInit ==
  /\ Init
  /\ disk \in {files \in Start : Load[files] = cfg[1]}
  /\ edits = 0
  /\ watching = "start"
  /\ watched = FALSE
  /\ inotify = FALSE
  /\ queue = <<>>
  /\ timer = "off"
  /\ reading = <<>>
  /\ loaded = disk
  /\ missed = FALSE

-----------------------------------------------------------------------------
\* The operator.  An edit in a directory the kernel watches becomes an event.

Edit(files, event, noticed) ==
  /\ edits < MaxEdits /\ ~stopping
  /\ edits' = edits + 1
  /\ disk' = files
  /\ queue' = IF noticed THEN Append(queue, event) ELSE queue
  /\ missed' = (missed \/ (~noticed /\ watching \in {"start", "config"}))
  /\ UNCHANGED <<vars, watching, watched, timer, reading, loaded>>

ConfigDirWatched == watching \in {"config", "ready"}

EditMain(m) ==
  /\ m # disk[1]
  /\ Edit(<<m, disk[2]>>, "main", ConfigDirWatched)
  /\ UNCHANGED inotify

EditShards(s) ==
  /\ disk[2] # NoDir /\ s # disk[2]
  /\ Edit(<<disk[1], s>>, "shard", inotify)
  /\ UNCHANGED inotify

RemoveDir ==
  /\ disk[2] # NoDir
  /\ Edit(<<disk[1], NoDir>>, "removed", ConfigDirWatched)
  /\ inotify' = FALSE

\* tenants.d appears, with its shards.
CreateDir(s) ==
  /\ disk[2] = NoDir
  /\ Edit(<<disk[1], s>>, "created", ConfigDirWatched)
  /\ UNCHANGED inotify

-----------------------------------------------------------------------------
\* watchConfig, which is one goroutine: it handles no event during a Reload

Free == rl = "idle" /\ reading = <<>>

\* A watch that cannot be added ends the watcher.
WatchConfigDir ==
  /\ watching = "start"
  /\ watching' \in {"config", "ended"}
  /\ UNCHANGED <<vars, disk, edits, watched, inotify, queue, timer, reading, loaded, missed>>

WatchTenantsDir ==
  /\ watching = "config"
  /\ \/ /\ disk[2] # NoDir
        /\ watching' = "ready" /\ watched' = TRUE /\ inotify' = TRUE
     \/ /\ disk[2] = NoDir
        /\ watching' = "ready" /\ UNCHANGED <<watched, inotify>>
     \/ /\ disk[2] # NoDir
        /\ watching' = "ended" /\ UNCHANGED <<watched, inotify>>
  /\ UNCHANGED <<vars, disk, edits, queue, timer, reading, loaded, missed>>

\* (Mutant: a new tenants.d is watched, but not read.)
SchedulesOnContent(event) == event # "created"

\* scheduleReload for every event on the files and on the directory.
Schedules(event) == TRUE

\* What the map says when addWatch looks at it.
WatchedBefore(event) == event # "removed" /\ watched

HandleEvent ==
  /\ watching = "ready" /\ Free
  /\ queue # <<>>
  /\ LET event == Head(queue)
         adds == event = "created" /\ ~WatchedBefore(event) /\ disk[2] # NoDir
     IN
     /\ watched' = (WatchedBefore(event) \/ adds)
     /\ inotify' = (inotify \/ adds)
     /\ timer' = IF Schedules(event) THEN "running" ELSE timer
  /\ queue' = Tail(queue)
  /\ UNCHANGED <<vars, disk, edits, watching, reading, loaded, missed>>

TimerExpires ==
  /\ timer = "running"
  /\ timer' = "expired"
  /\ UNCHANGED <<vars, disk, edits, watching, watched, inotify, queue, reading, loaded, missed>>

\* case <-timerC: Reload is called, and LoadConfig reads the main file ...
LoadMain ==
  /\ watching = "ready" /\ Free
  /\ timer = "expired"
  /\ timer' = "off"
  /\ reading' = <<disk[1]>>
  /\ missed' = FALSE
  /\ UNCHANGED <<vars, disk, edits, watching, watched, inotify, queue, loaded>>

\* ... and then the shards.
LoadShards ==
  /\ reading # <<>>
  /\ loaded' = <<reading[1], disk[2]>>
  /\ reading' = <<>>
  /\ ReloadStart(Load[loaded'])
  /\ UNCHANGED <<disk, edits, watching, watched, inotify, queue, timer, missed>>

\* case <-ctx.Done().
WatcherReturns ==
  /\ stopping /\ Free
  /\ watching = "ready"
  /\ watching' = "ended"
  /\ UNCHANGED <<vars, disk, edits, watched, inotify, queue, timer, reading, loaded, missed>>

-----------------------------------------------------------------------------
Operator ==
  \/ \E m \in Main : EditMain(m)
  \/ \E s \in Shards : EditShards(s) \/ CreateDir(s)
  \/ RemoveDir

Watcher ==
  \/ WatchConfigDir \/ WatchTenantsDir \/ HandleEvent \/ TimerExpires
  \/ LoadMain \/ LoadShards \/ WatcherReturns

WatchNext ==
  \/ Operator
  \/ Watcher
  \/ /\ Elsewhere \/ (SetDomainManager /\ reading = <<>>)
     /\ UNCHANGED <<disk, edits, watch>>

WatchSpec == WatchInit /\ [][WatchNext]_wvars

-----------------------------------------------------------------------------
\* No edit is lost: when the watcher has nothing left to do, the files on disk
\* are those the last LoadConfig has read, although it reads them one by one,
\* tenants.d comes and goes, and edits race the watch on a new directory.  An
\* edit before watchConfig had its watches in place is the exception.
NoEditLost ==
  watching = "ready" /\ Free /\ queue = <<>> /\ timer = "off" =>
    loaded = disk \/ missed
=============================================================================
