-------------------------- MODULE FileSystemWatcher --------------------------
(***************************************************************************)
(* rct/FileSystemWatcher*.cpp with inotify: one directory, whose files     *)
(* come, change and go while the watcher reads the kernel's events in      *)
(* batches, nets them out and reports; removals wait for a timer.          *)
(*                                                                         *)
(* A batch is read and netted out with mMutex held, and the signals are    *)
(* emitted right after it on the same thread, so a batch is one step.      *)
(* Whether the watched path is a directory is asked when an event is       *)
(* handled, not when it happened.                                          *)
(***************************************************************************)
EXTENDS Naturals, Sequences, SequencesExt

CONSTANTS
    Files,          \* names in the directory
    RemoveDelays,   \* whether removals wait: mOptions.removeDelay > 0
    Overwrites,     \* whether a rename may replace a file that exists
    MaxChanges,     \* changes of the directory
    MaxWatches      \* calls of watch

ASSUME WatcherAssumption == RemoveDelays \subseteq BOOLEAN /\ Overwrites \in BOOLEAN

VARIABLES
    files, dirExists,       \* the file system
    kernelWatch,            \* the descriptor of the kernel's watch; 0 for none
    inotify,                \* events not yet read
    watches,                \* descriptors given out so far
    mWatchedByPath,         \* the descriptor of the directory's path; 0 for none
    mWatchedById,           \* the descriptors that stand for the path
    mAddedPaths, mRemovedPaths, mModifiedPaths,
    removeDelay,
    mTimer,                 \* whether the timer of removals is registered
    listed,                 \* history: the files a listener takes to exist
    tracked,                \* history: watched once, and all along since
    changes

fsVars     == <<files, dirExists, kernelWatch, inotify, changes>>
mapVars    == <<watches, mWatchedByPath, mWatchedById>>
pathVars   == <<mAddedPaths, mRemovedPaths, mModifiedPaths>>
watcherVars == <<fsVars, mapVars, pathVars, removeDelay, mTimer, listed, tracked>>

Dir == "the directory"

WatcherInit ==
    /\ files \in SUBSET Files /\ dirExists = TRUE
    /\ kernelWatch = 0 /\ inotify = <<>> /\ changes = 0
    /\ watches = 0 /\ mWatchedByPath = 0 /\ mWatchedById = {}
    /\ mAddedPaths = {} /\ mRemovedPaths = {} /\ mModifiedPaths = {}
    /\ removeDelay \in RemoveDelays /\ mTimer = FALSE
    /\ listed = {} /\ tracked = FALSE

-----------------------------------------------------------------------------
(* The file system and the kernel (inotify) *)

Event(what, name) == [wd |-> kernelWatch, what |-> what, name |-> name]

Notify(events) == inotify' = IF kernelWatch = 0 THEN inotify ELSE inotify \o events

Change(after, events) ==
    /\ dirExists /\ changes < MaxChanges
    /\ changes' = changes + 1
    /\ files' = after
    /\ Notify(events)
    /\ UNCHANGED <<dirExists, kernelWatch, mapVars, pathVars, removeDelay, mTimer, listed, tracked>>

CreateFile == \E f \in Files \ files : Change(files \cup {f}, <<Event("create", f), Event("modify", f)>>)
WriteFile  == \E f \in files : Change(files, <<Event("modify", f)>>)
DeleteFile == \E f \in files : Change(files \ {f}, <<Event("delete", f)>>)
RenameFile ==
    \E f \in files, g \in Files :
        /\ f # g /\ (Overwrites \/ g \notin files)
        /\ Change((files \ {f}) \cup {g}, <<Event("delete", f), Event("create", g)>>)

DeleteDir ==
    /\ dirExists /\ files = {} /\ changes < MaxChanges
    /\ changes' = changes + 1
    /\ dirExists' = FALSE
    /\ Notify(<<Event("self", Dir)>>)
    /\ kernelWatch' = 0
    /\ tracked' = FALSE
    /\ UNCHANGED <<files, mapVars, pathVars, removeDelay, mTimer, listed>>

-----------------------------------------------------------------------------
(* watch, unwatch and clear *)

Watch ==
    /\ dirExists /\ watches < MaxWatches
    /\ mWatchedByPath = 0
    /\ watches' = watches + 1
    /\ kernelWatch' = watches' /\ mWatchedByPath' = watches'
    /\ mWatchedById' = mWatchedById \cup {watches'}
    /\ listed' = files
    /\ tracked' = (watches = 0)
    /\ UNCHANGED <<files, dirExists, inotify, changes, pathVars, removeDelay, mTimer>>

(* unwatch of the path, or clear *)
Unwatch ==
    /\ mWatchedByPath # 0
    /\ mWatchedById' = mWatchedById \ {mWatchedByPath}
    /\ mWatchedByPath' = 0
    /\ kernelWatch' = IF kernelWatch = mWatchedByPath THEN 0 ELSE kernelWatch
    /\ tracked' = FALSE
    /\ UNCHANGED <<files, dirExists, inotify, changes, watches, pathVars, removeDelay, mTimer, listed>>

-----------------------------------------------------------------------------
(* add: what a pending change and a new one come to *)

Pending == [added |-> mAddedPaths, removed |-> mRemovedPaths, modified |-> mModifiedPaths]

(* Mutant: a path that comes back is added while its removal still waits *)
PendAddOnly(p, path) == [p EXCEPT !.added = @ \cup {path}]

PendAdd(p, path) ==
    IF path \in p.removed
    THEN [p EXCEPT !.removed = @ \ {path}, !.modified = @ \cup {path}]
    ELSE [p EXCEPT !.added = @ \cup {path}]

PendRemove(p, path) ==
    IF path \in p.added
    THEN [p EXCEPT !.added = @ \ {path}]
    ELSE [p EXCEPT !.removed = @ \cup {path}]

PendModified(p, path) == [p EXCEPT !.modified = @ \cup {path}]

(* One event of a batch: nothing for a descriptor that is not in the map *)
HandleEvent(p, event) ==
    LET path == IF dirExists THEN event.name ELSE Dir
    IN  CASE event.wd \notin mWatchedById -> p
          [] event.wd \in mWatchedById /\ event.what = "self"   -> PendRemove(p, Dir)
          [] event.wd \in mWatchedById /\ event.what = "create" -> PendAdd(p, path)
          [] event.wd \in mWatchedById /\ event.what = "delete" -> PendRemove(p, path)
          [] event.wd \in mWatchedById /\ event.what = "modify" -> PendModified(p, path)

(* notifyReadyRead and processChanges: added and modified are reported at  *)
(* once; removals when the timer fires, or between the two without a delay *)
NotifyReadyRead ==
    /\ inotify # <<>>
    /\ inotify' = <<>>
    /\ LET p == FoldLeft(HandleEvent, Pending, inotify)
       IN  /\ mAddedPaths' = {} /\ mModifiedPaths' = {}
           /\ mRemovedPaths' = IF removeDelay THEN p.removed ELSE {}
           /\ listed' = (listed \cup p.added) \ (IF removeDelay THEN {} ELSE p.removed)
           /\ mTimer' = (mTimer \/ (removeDelay /\ p.removed # {}))
    /\ UNCHANGED <<files, dirExists, kernelWatch, changes, mapVars, removeDelay, tracked>>

(* The timer repeats until the watcher is destroyed *)
TimerFires ==
    /\ mTimer
    /\ listed' = listed \ mRemovedPaths
    /\ mRemovedPaths' = {}
    /\ UNCHANGED <<fsVars, mapVars, mAddedPaths, mModifiedPaths, removeDelay, mTimer, tracked>>

-----------------------------------------------------------------------------

WatcherNext ==
    \/ CreateFile \/ WriteFile \/ DeleteFile \/ RenameFile \/ DeleteDir
    \/ Watch \/ Unwatch
    \/ NotifyReadyRead \/ TimerFires

WatcherSpec == WatcherInit /\ [][WatcherNext]_watcherVars

(* What one added, removed and modified at a time tell a listener adds up  *)
(* to what is there: where the two differ, an event that says so has not   *)
(* been read or a removal waits for a timer that runs (FileSystemWatcher.h *)
(* 110-128, FileSystemWatcher.cpp 29-68, notifyReadyRead).                 *)
ListenerIsRight ==
    tracked =>
        \A f \in Files :
            \/ (f \in listed) = (f \in files)
            \/ \E i \in DOMAIN inotify : inotify[i].name = f /\ inotify[i].wd \in mWatchedById
            \/ f \in mRemovedPaths /\ mTimer
=============================================================================
