---------------------------- MODULE ObjectStore ----------------------------
(***************************************************************************)
(* How one job's object gets to its place in an output directory: resumed  *)
(* from an earlier build, copied from the object cache, or emitted, then   *)
(* published, stamped with the job's hash and stored in the cache          *)
(* (pipeline.c).  The builds of one output directory run one after the     *)
(* other and use different options, so different hashes, called versions   *)
(* here; the builds of several outputs run at once and share the cache.  A *)
(* process may be killed between any two steps, and file operations fail.  *)
(***************************************************************************)
EXTENDS FiniteSets

CONSTANTS
  Version,   \* job hashes
  Thin,      \* the versions that ask for ThinLTO bitcode (emit_thinlto)
  Output,    \* output directories
  None

ASSUME StoreAssumption ==
  /\ Thin \subseteq Version
  /\ None \notin Version \cup [ver : Version, cut : BOOLEAN]

VARIABLES
  obj,        \* job->path, per output
  bc,         \* job->thinlto_path
  stamp,      \* job->path.hash
  cacheObj,   \* the cache's object, per version
  cacheBc,    \* the cache's bitcode
  pc,         \* the step the build of an output takes next
  ver,        \* the version it builds
  copied,     \* its object came from the cache
  unstamped,  \* obj or bc was touched since the stamp was written
  result      \* how the last build of an output ended

files == <<obj, bc, stamp>>
cache == <<cacheObj, cacheBc>>
build == <<pc, ver, copied, result>>
vars == <<files, cache, build, unstamped>>

(* A file cut short keeps the header that valid_object_file looks at; one  *)
(* without it is treated like a missing one, and so is None.               *)
Whole(v) == [ver |-> v, cut |-> FALSE]
Cut(v) == [ver |-> v, cut |-> TRUE]
Content == [ver : Version, cut : BOOLEAN] \cup {None}
Steps == {"idle", "object", "bitcode", "emit", "emitBc", "emitObj", "publish",
          "stamp", "restamp", "store", "storeBc"}

TypeOK ==
  /\ obj \in [Output -> Content]
  /\ bc \in [Output -> Content]
  /\ stamp \in [Output -> Version \cup {None}]
  /\ cacheObj \in [Version -> Content]
  /\ cacheBc \in [Version -> Content]
  /\ pc \in [Output -> Steps]
  /\ ver \in [Output -> Version]
  /\ copied \in [Output -> BOOLEAN]
  /\ unstamped \in [Output -> BOOLEAN]
  /\ result \in [Output -> {"none", "resumed", "made", "failed"}]

Init ==
  /\ obj = [o \in Output |-> None]
  /\ bc = [o \in Output |-> None]
  /\ stamp = [o \in Output |-> None]
  /\ cacheObj = [v \in Version |-> None]
  /\ cacheBc = [v \in Version |-> None]
  /\ pc = [o \in Output |-> "idle"]
  /\ ver \in [Output -> Version]
  /\ copied = [o \in Output |-> FALSE]
  /\ unstamped = [o \in Output |-> FALSE]
  /\ result = [o \in Output |-> "none"]
-----------------------------------------------------------------------------
Go(o, step) ==
  /\ pc' = [pc EXCEPT ![o] = step]
  /\ UNCHANGED <<ver, copied, result>>

End(o, how) ==
  /\ pc' = [pc EXCEPT ![o] = "idle"]
  /\ result' = [result EXCEPT ![o] = how]
  /\ UNCHANGED <<ver, copied>>

SetObj(o, c) ==
  /\ obj' = [obj EXCEPT ![o] = c]
  /\ unstamped' = [unstamped EXCEPT ![o] = TRUE]

SetBc(o, c) ==
  /\ bc' = [bc EXCEPT ![o] = c]
  /\ unstamped' = [unstamped EXCEPT ![o] = TRUE]

(* reuse_llvm_object: what DOLRECOMP_LLVM_RESUME accepts, and the cache.   *)
Resumable(o, v) ==
  /\ obj[o] # None
  /\ v \in Thin => bc[o] # None
  /\ stamp[o] = v

CachedObject(v) == cacheObj[v] # None   \* mutant: the bitcode is not looked for
Cached(v) ==
  /\ cacheObj[v] # None
  /\ v \in Thin => cacheBc[v] # None

(* A build of version v starts: it resumes, which it may be told not to    *)
(* (the variable is unset), or copies from the cache, which may be off or  *)
(* unreadable, or emits.  The file that a copy has truncated keeps a header*)
(* or does not.                                                            *)
Begin(o, v) ==
  /\ pc[o] = "idle"
  /\ ver' = [ver EXCEPT ![o] = v]
  /\ UNCHANGED <<bc, stamp, cache>>
  /\ \/ /\ Resumable(o, v)
        /\ result' = [result EXCEPT ![o] = "resumed"]
        /\ UNCHANGED <<pc, obj, unstamped, copied>>
     \/ /\ Cached(v)
        /\ \E c \in {None, Cut(v)} : SetObj(o, c)
        /\ pc' = [pc EXCEPT ![o] = "object"]
        /\ copied' = [copied EXCEPT ![o] = TRUE]
        /\ UNCHANGED result
     \/ /\ pc' = [pc EXCEPT ![o] = "emit"]
        /\ copied' = [copied EXCEPT ![o] = FALSE]
        /\ UNCHANGED <<obj, unstamped, result>>

(* copy_file ends: the copy is whole, or removed and the object is emitted.*)
Emitting(o) ==
  /\ pc' = [pc EXCEPT ![o] = "emit"]
  /\ copied' = [copied EXCEPT ![o] = FALSE]
  /\ UNCHANGED <<ver, result>>

CopyObject(o) ==
  /\ pc[o] = "object"
  /\ UNCHANGED <<stamp, cache>>
  /\ \/ /\ ver[o] \in Thin
        /\ SetObj(o, cacheObj[ver[o]])
        /\ bc' = [bc EXCEPT ![o] = Cut(ver[o])]
        /\ Go(o, "bitcode")
     \/ /\ ver[o] \notin Thin
        /\ SetObj(o, cacheObj[ver[o]])
        /\ Go(o, "stamp")
        /\ UNCHANGED bc
     \/ /\ SetObj(o, None)
        /\ Emitting(o)
        /\ UNCHANGED bc

CopyBitcode(o) ==
  /\ pc[o] = "bitcode"
  /\ UNCHANGED <<obj, stamp, cache>>
  /\ \/ /\ SetBc(o, cacheBc[ver[o]])
        /\ Go(o, "stamp")
     \/ /\ SetBc(o, None)
        /\ Emitting(o)
-----------------------------------------------------------------------------
(***************************************************************************)
(* emit_llvm_chunk_job.  The object is made under a temporary name, the    *)
(* bitcode in place.                                                       *)
(***************************************************************************)
Emit(o) ==
  /\ pc[o] = "emit"
  /\ UNCHANGED <<obj, stamp, cache>>
  /\ \/ /\ ver[o] \in Thin
        /\ SetBc(o, Cut(ver[o]))
        /\ Go(o, "emitBc")
     \/ /\ ver[o] \notin Thin
        /\ SetBc(o, None)
        /\ Go(o, "emitObj")
     \/ /\ End(o, "failed")
        /\ UNCHANGED <<bc, unstamped>>

EmitBitcode(o) ==
  /\ pc[o] = "emitBc"
  /\ SetBc(o, Whole(ver[o]))
  /\ Go(o, "emitObj")
  /\ UNCHANGED <<obj, stamp, cache>>

(* The object exists under its temporary name; the old one is removed.     *)
EmitObject(o) ==
  /\ pc[o] = "emitObj"
  /\ UNCHANGED <<bc, stamp, cache>>
  /\ \/ /\ SetObj(o, None)
        /\ Go(o, "publish")
     \/ /\ End(o, "failed")
        /\ UNCHANGED <<obj, unstamped>>

(* Mutant: a rename that failed is not noticed.                            *)
PublishUnchecked(o) ==
  /\ pc[o] = "publish"
  /\ UNCHANGED <<bc, stamp, cache>>
  /\ \E c \in {Whole(ver[o]), None} : SetObj(o, c)
  /\ Go(o, "stamp")

Publish(o) ==
  /\ pc[o] = "publish"
  /\ UNCHANGED <<bc, stamp, cache>>
  /\ \/ /\ SetObj(o, Whole(ver[o]))
        /\ Go(o, "stamp")
     \/ /\ End(o, "failed")
        /\ UNCHANGED <<obj, unstamped>>

(* write_llvm_job_stamp: the old stamp goes once the new one is written; a *)
(* failure is not reported, and leaves the old stamp or none.              *)
AfterStamp(o) ==
  IF copied[o] THEN End(o, "made") ELSE Go(o, "store")

RemoveStamp(o) ==
  /\ pc[o] = "stamp"
  /\ UNCHANGED <<obj, bc, cache, unstamped>>
  /\ \/ /\ stamp' = [stamp EXCEPT ![o] = None]
        /\ Go(o, "restamp")
     \/ /\ AfterStamp(o)
        /\ UNCHANGED stamp

WriteStamp(o) ==
  /\ pc[o] = "restamp"
  /\ UNCHANGED <<obj, bc, cache>>
  /\ AfterStamp(o)
  /\ \/ /\ stamp' = [stamp EXCEPT ![o] = ver[o]]
        /\ unstamped' = [unstamped EXCEPT ![o] = FALSE]
     \/ UNCHANGED <<stamp, unstamped>>

(* Mutant: the copy is made under the final name.                          *)
StoreObjectInPlace(o) ==
  /\ pc[o] = "store"
  /\ UNCHANGED <<files, cacheBc, unstamped>>
  /\ \/ /\ ~Cached(ver[o])
        /\ \E c \in {obj[o], Cut(ver[o])} :
             cacheObj' = [cacheObj EXCEPT ![ver[o]] = c]
        /\ IF ver[o] \in Thin THEN Go(o, "storeBc") ELSE End(o, "made")
     \/ /\ End(o, "made")
        /\ UNCHANGED cacheObj

(* cache_llvm_object: copies under a temporary name and renames; the copy  *)
(* is private until the rename, so both are one step.                      *)
StoreObject(o) ==
  /\ pc[o] = "store"
  /\ UNCHANGED <<files, cacheBc, unstamped>>
  /\ \/ /\ ~Cached(ver[o])
        /\ \/ cacheObj' = [cacheObj EXCEPT ![ver[o]] = obj[o]]
           \/ UNCHANGED cacheObj
        /\ IF ver[o] \in Thin THEN Go(o, "storeBc") ELSE End(o, "made")
     \/ /\ End(o, "made")
        /\ UNCHANGED cacheObj

StoreBitcode(o) ==
  /\ pc[o] = "storeBc"
  /\ UNCHANGED <<files, cacheObj, unstamped>>
  /\ \/ cacheBc' = [cacheBc EXCEPT ![ver[o]] = bc[o]]
     \/ UNCHANGED cacheBc
  /\ End(o, "made")

(* The process is killed.                                                  *)
Kill(o) ==
  /\ pc[o] # "idle"
  /\ End(o, "failed")
  /\ UNCHANGED <<files, cache, unstamped>>
-----------------------------------------------------------------------------
Step(o) ==
  \/ \E v \in Version : Begin(o, v)
  \/ CopyObject(o) \/ CopyBitcode(o)
  \/ Emit(o) \/ EmitBitcode(o) \/ EmitObject(o) \/ Publish(o)
  \/ RemoveStamp(o) \/ WriteStamp(o)
  \/ StoreObject(o) \/ StoreBitcode(o)
  \/ Kill(o)

Next == \E o \in Output : Step(o)

Spec == Init /\ [][Next]_vars
-----------------------------------------------------------------------------
(* The outputs of o are those of version v.                                *)
Right(o, v) ==
  /\ obj[o] = Whole(v)
  /\ v \in Thin => bc[o] = Whole(v)

(* Whatever is killed and whichever builds run at once, the cache holds    *)
(* only whole files of the version it files them under.                    *)
CacheIsWhole ==
  \A v \in Version :
    /\ cacheObj[v] \in {None, Whole(v)}
    /\ cacheBc[v] \in {None, Whole(v)}

(* A build that made or copied its object delivers the version asked for.  *)
MadeIsRight ==
  \A o \in Output : pc[o] = "idle" /\ result[o] = "made" => Right(o, ver[o])

(* A stamp speaks for the files beside it as long as no build has touched  *)
(* them since; resuming is right exactly then.  A build killed or failed   *)
(* after it touched them, or whose stamp could not be written, leaves them *)
(* unstamped under the older stamp, and a resume does not see it.          *)
StampIsHonest ==
  \A o \in Output : stamp[o] # None /\ ~unstamped[o] => Right(o, stamp[o])
=============================================================================
