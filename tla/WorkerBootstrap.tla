---------------------------- MODULE WorkerBootstrap ----------------------------
(***************************************************************************)
(* internal/workerbootstrap: how a control worker gets its configuration   *)
(* and its secrets.  One helper reads a manifest and the certificates it   *)
(* names, seals them and hands them to the child; the child checks them,   *)
(* builds its snapshot and waits for the private keys, which a second      *)
(* helper reads from the same directory, later.  Operators replace files   *)
(* and directories in between, and anybody may cancel or close.            *)
(***************************************************************************)
EXTENDS Values, Integers, Sequences

CONSTANTS
  Roles,       \* of certificates and their keys: postgres, starter, control
  Releases,    \* versions of a file
  Twin,        \* releases whose certificates share one key
  MaxDeploys   \* bound on replacements

VARIABLES
  disk,     \* directories, the last of them at the fixed path, and the files in each
  public,   \* openPublicSourceFromAnchor
  secret,   \* writeSecretFramesFromAnchor
  frames,   \* what the secret pipes hold
  inherited \* InheritedSource, in the child

bootstrapVars == <<disk, public, secret, frames, inherited>>

KeyOf(role, v) == IF v \in Twin THEN <<"shared", v>> ELSE <<role, v>>
DistinctKeys(vs) == \A a, b \in Roles : a # b => KeyOf(a, vs[a]) # KeyOf(b, vs[b])

\* A file and the stamp of its inode, which every write and every rename changes.
File(v, stamp) == [v |-> v, stamp |-> stamp]
Deployed(r, stamp) ==
  [manifest |-> File(r, stamp), cert |-> [x \in Roles |-> File(r, stamp)], key |-> [x \in Roles |-> File(r, stamp)]]

NoSource == [state |-> None, certs |-> None, file |-> FALSE, bundle |-> None, decoded |-> None,
             readers |-> FALSE, cancelled |-> FALSE]

BootstrapInit ==
  /\ disk = [dirs |-> <<Deployed(CHOOSE r \in Releases : r \notin Twin, 0)>>, deploys |-> 0]
  /\ public = [at |-> "none", dir |-> 0, manifest |-> None, held |-> None, certs |-> [x \in {} |-> None]]
  /\ secret = [at |-> "none", dir |-> 0, held |-> None, keys |-> [x \in {} |-> None]]
  /\ frames = None
  /\ inherited = NoSource

-----------------------------------------------------------------------------
(* Operators *)

Current == Len(disk.dirs)
Stamp == disk.deploys + 1

ReplaceFile ==
  /\ disk.deploys < MaxDeploys
  /\ \E r \in Releases, x \in Roles :
       \/ disk' = [disk EXCEPT !.deploys = @ + 1, !.dirs[Current].manifest = File(r, Stamp)]
       \/ disk' = [disk EXCEPT !.deploys = @ + 1, !.dirs[Current].cert[x] = File(r, Stamp)]
       \/ disk' = [disk EXCEPT !.deploys = @ + 1, !.dirs[Current].key[x] = File(r, Stamp)]
  /\ UNCHANGED <<public, secret, frames, inherited>>

ReplaceDirectory ==
  /\ disk.deploys < MaxDeploys
  /\ \E r \in Releases : disk' = [dirs |-> Append(disk.dirs, Deployed(r, Stamp)), deploys |-> disk.deploys + 1]
  /\ UNCHANGED <<public, secret, frames, inherited>>

-----------------------------------------------------------------------------
(* The helper of the public source *)

\* The chain of trusted directories; the last one stays open.
traverseTrustedDirectories ==
  /\ public.at = "none"
  /\ public' = [public EXCEPT !.at = "manifest", !.dir = Current]
  /\ UNCHANGED <<disk, secret, frames, inherited>>

\* Both reads and both stats of readStableDescriptor agree.
stableDescriptor(before, after) == before = after

PublicRejected == public' = [public EXCEPT !.at = "rejected", !.held = None, !.certs = [x \in {} |-> None]]

decodePublicDocument ==
  /\ public.at = "manifest"
  /\ public' = [public EXCEPT !.at = "certs", !.manifest = disk.dirs[public.dir].manifest.v]
  /\ UNCHANGED <<disk, secret, frames, inherited>>

\* The first read of the next certificate.
readStableFileAt ==
  /\ public.at = "certs" /\ public.held = None
  /\ \E x \in Roles \ DOMAIN public.certs :
       public' = [public EXCEPT !.held = [role |-> x, file |-> disk.dirs[public.dir].cert[x]]]
  /\ UNCHANGED <<disk, secret, frames, inherited>>

\* The manifest's digest of the artifact.
matchesSHA256(v) == v = public.manifest

readStableDescriptor ==
  /\ public.at = "certs" /\ public.held # None
  /\ LET x == public.held.role
         v == public.held.file.v
     IN IF stableDescriptor(public.held.file, disk.dirs[public.dir].cert[x]) /\ matchesSHA256(v)
        THEN public' = [public EXCEPT !.held = None,
               !.certs = [y \in DOMAIN public.certs \cup {x} |-> IF y = x THEN v ELSE public.certs[y]]]
        ELSE PublicRejected
  /\ UNCHANGED <<disk, secret, frames, inherited>>

\* Certificates valid now, with keys of their own, in the directory that is still there: sealed.
openPublicSource ==
  /\ public.at = "certs" /\ public.held = None /\ DOMAIN public.certs = Roles
  /\ IF DistinctKeys(public.certs) /\ public.dir = Current
     THEN \/ public' = [public EXCEPT !.at = "sealed"]
          \/ PublicRejected                               \* a certificate is not valid now
     ELSE PublicRejected
  /\ UNCHANGED <<disk, secret, frames, inherited>>

-----------------------------------------------------------------------------
(* The child *)

\* StartChild, and the child's own validation of what it inherits.
acceptInheritedSource ==
  /\ public.at = "sealed" /\ inherited.state = None
  /\ public' = [public EXCEPT !.at = "handed"]
  /\ inherited' = IF \A x \in Roles : matchesSHA256(public.certs[x])
                  THEN [inherited EXCEPT !.state = "live", !.certs = public.certs, !.file = TRUE, !.readers = TRUE]
                  ELSE [inherited EXCEPT !.state = "closed"]
  /\ UNCHANGED <<disk, secret, frames>>

\* Everything it holds is cleared and closed.
Cleared == [NoSource EXCEPT !.state = "closed", !.cancelled = inherited.cancelled]

beginSnapshotBuild ==
  /\ inherited.state = "live"
  /\ inherited' = [inherited EXCEPT !.state = "building"]
  /\ UNCHANGED <<disk, public, secret, frames>>

finishSnapshotBuild ==
  /\ inherited.state = "building"
  /\ inherited' \in {[inherited EXCEPT !.state = "built"], Cleared}
  /\ UNCHANGED <<disk, public, secret, frames>>

beginSecretBinding ==
  /\ inherited.state = "built"
  /\ inherited' = IF inherited.cancelled THEN Cleared
                  ELSE [inherited EXCEPT !.state = "binding", !.decoded = [x \in {} |-> None]]
  /\ UNCHANGED <<disk, public, secret, frames>>

\* Variant: a key that parses will do.
AnyKey(x, v) == v \in Releases

\* The key is that of the certificate.
expectedSPKI(x, v) == KeyOf(x, v) = KeyOf(x, inherited.certs[x])

\* A pipe is read to its end; a frame that is missing, broken or for another key ends it.
readInheritedSecretFrame ==
  /\ inherited.state = "binding" /\ secret.at \in {"written", "rejected"}
  /\ \E x \in Roles \ DOMAIN inherited.decoded :
       inherited' = IF frames # None /\ ~inherited.cancelled /\ expectedSPKI(x, frames[x])
                    THEN [inherited EXCEPT !.decoded =
                           [y \in DOMAIN inherited.decoded \cup {x} |-> IF y = x THEN frames[x] ELSE inherited.decoded[y]]]
                    ELSE Cleared
  /\ UNCHANGED <<disk, public, secret, frames>>

\* Variant: what was read is kept although the caller has cancelled.
KeepsWhatItRead ==
  /\ inherited.state = "binding" /\ DOMAIN inherited.decoded = Roles
  /\ inherited' = [inherited EXCEPT !.state = "bound", !.bundle = inherited.decoded, !.decoded = None, !.readers = FALSE]
  /\ UNCHANGED <<disk, public, secret, frames>>

\* A cancellation until now undoes it.
finishSecretBinding ==
  /\ inherited.state = "binding" /\ DOMAIN inherited.decoded = Roles
  /\ inherited' = IF inherited.cancelled THEN Cleared
                  ELSE [inherited EXCEPT !.state = "bound", !.bundle = inherited.decoded, !.decoded = None, !.readers = FALSE]
  /\ UNCHANGED <<disk, public, secret, frames>>

CancelBinding ==
  /\ ~inherited.cancelled /\ inherited.state \in {"live", "building", "built", "binding"}
  /\ inherited' = [inherited EXCEPT !.cancelled = TRUE]
  /\ UNCHANGED <<disk, public, secret, frames>>

\* Refused while it is being built or bound.
CloseInherited ==
  /\ inherited.state \in {"live", "built", "bound"}
  /\ inherited' = Cleared
  /\ UNCHANGED <<disk, public, secret, frames>>

-----------------------------------------------------------------------------
(* The helper of the secrets, once the child has built its snapshot *)

\* All are opened before one is read.
openStableSecrets ==
  /\ secret.at = "none" /\ inherited.state \in {"built", "binding", "closed"}
  /\ secret' = [secret EXCEPT !.at = "reading", !.dir = Current, !.held = disk.dirs[Current].key]
  /\ UNCHANGED <<disk, public, frames, inherited>>

SecretsRejected == secret' = [secret EXCEPT !.at = "rejected", !.held = None, !.keys = [x \in {} |-> None]]

readSecret ==
  /\ secret.at = "reading"
  /\ \E x \in Roles \ DOMAIN secret.keys :
       IF stableDescriptor(secret.held[x], disk.dirs[secret.dir].key[x])
       THEN secret' = [secret EXCEPT !.keys =
              [y \in DOMAIN secret.keys \cup {x} |-> IF y = x THEN secret.held[x].v ELSE secret.keys[y]]]
       ELSE SecretsRejected
  /\ UNCHANGED <<disk, public, frames, inherited>>

writeSecretFrames ==
  /\ secret.at = "reading" /\ DOMAIN secret.keys = Roles
  /\ IF DistinctKeys(secret.keys) /\ secret.dir = Current
     THEN secret' = [secret EXCEPT !.at = "written", !.held = None] /\ frames' = secret.keys
     ELSE SecretsRejected /\ UNCHANGED frames
  /\ UNCHANGED <<disk, public, inherited>>

-----------------------------------------------------------------------------
BootstrapNext ==
  \/ ReplaceFile \/ ReplaceDirectory
  \/ traverseTrustedDirectories \/ decodePublicDocument \/ readStableFileAt \/ readStableDescriptor \/ openPublicSource
  \/ acceptInheritedSource \/ beginSnapshotBuild \/ finishSnapshotBuild
  \/ beginSecretBinding \/ readInheritedSecretFrame \/ finishSecretBinding \/ CancelBinding \/ CloseInherited
  \/ openStableSecrets \/ readSecret \/ writeSecretFrames

BootstrapSpec == BootstrapInit /\ [][BootstrapNext]_bootstrapVars

-----------------------------------------------------------------------------
(* A child with secrets has exactly the keys of the certificates it validated, those of one
   manifest, each role its own, whatever was deployed while and between the helpers read
   (matchesSHA256, BindControlWorkerSecrets). *)
BoundIsCertified ==
  inherited.state = "bound" =>
    /\ \E r \in Releases : inherited.certs = [x \in Roles |-> r]
    /\ \A x \in Roles : KeyOf(x, inherited.bundle[x]) = KeyOf(x, inherited.certs[x])
    /\ DistinctKeys(inherited.bundle)

(* Nobody who cancelled before the secrets were bound gets them, and what is closed holds
   nothing and stays closed (finishSecretBinding, Close). *)
CancelledIsNotBound ==
  /\ inherited.state = "bound" => ~inherited.cancelled
  /\ inherited.state = "closed" => ~inherited.file /\ ~inherited.readers /\ inherited.bundle = None /\ inherited.decoded = None

(* A control worker is bound to one deployment, or to none (BindControlWorkerSecrets). *)
BootstrapSafety == BoundIsCertified /\ CancelledIsNotBound
=============================================================================
