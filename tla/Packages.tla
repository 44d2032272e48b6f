------------------------------ MODULE Packages ------------------------------
(***************************************************************************)
(* The package manager (kernel/core/kernel.c, c_pm and package_install):   *)
(* a payload is fetched from the mirrors in their order, decoded, compared *)
(* with the hash of the catalog, and stored in /var/apps in three calls,   *)
(* each of which may fail; the power may fail between any two steps.  What *)
(* a mirror answers is its kind: no answer, no 200, or a payload that is   *)
(* garbled, not an ELF, another ELF or the right one.                      *)
(***************************************************************************)
EXTENDS Naturals, Sequences

CONSTANTS
    packages,           \* the catalog, in its order
    Essential,          \* those of the essential set
    Mirrors             \* how many repositories there are

Catalog == {packages[i] : i \in DOMAIN packages}

ASSUME PackagesAssumption ==
    packages \in Seq(STRING) /\ Essential \subseteq Catalog /\ Essential # {} /\ Mirrors \in Nat

Payloads == {"garbled", "text", "other", "right"}
Answers == {"down", "refused"} \cup Payloads

VARIABLES
    var_mounted,        \* /var is mounted
    apps,               \* what is stored under the name of a package, or "none"
    executable,         \* the packages of mode 0755
    pc, todo,           \* the step of package_install, and the places in the catalog to come
    many,               \* the command is `pm install essentials`
    mirror, body,       \* package_fetch: the repository asked, what it gave
    said                \* the last message

pm == <<var_mounted, apps, executable, pc, todo, many, mirror, body, said>>

package_installed(name) == var_mounted /\ apps[name] # "none"

-----------------------------------------------------------------------------
(* package_install, for the first package of todo                          *)

First == CHOOSE i \in todo : \A j \in todo : i <= j
Current == packages[First]
Fail == pc' = "idle" /\ todo' = {} /\ said' = <<"failed", Current>>
\* One package is done: the next of the essentials, or the end of the command.
Done(result) ==
    IF many /\ todo # {First}
    THEN pc' = "start" /\ todo' = todo \ {First} /\ said' = <<result, Current>>
    ELSE pc' = "idle" /\ todo' = {} /\ said' = IF many THEN <<"ready">> ELSE <<result, Current>>

PmStart ==
    /\ pc = "start"
    /\ IF package_installed(Current) THEN Done("already") /\ UNCHANGED mirror
       ELSE IF ~var_mounted THEN Fail /\ UNCHANGED mirror
       ELSE pc' = "fetch" /\ mirror' = 1 /\ UNCHANGED <<todo, said>>
    /\ UNCHANGED <<var_mounted, apps, executable, many, body>>

\* package_fetch: the first mirror that answers 200 with a body; there is no second look at
\* the others when that body turns out to be wrong.
package_fetch(answer) ==
    /\ pc = "fetch"
    /\ IF answer \in Payloads THEN pc' = "verify" /\ body' = answer /\ UNCHANGED <<mirror, todo, said>>
       ELSE IF mirror < Mirrors THEN mirror' = mirror + 1 /\ UNCHANGED <<pc, body, todo, said>>
       ELSE Fail /\ UNCHANGED <<mirror, body>>
    /\ UNCHANGED <<var_mounted, apps, executable, many>>

package_decode(b) == b # "garbled"
package_valid_elf(b) == b # "text"
package_hash_valid(b) == b = "right"

\* Mutant: decoded and recognized is enough.
VerifyElf ==
    /\ pc = "verify"
    /\ IF package_decode(body) /\ package_valid_elf(body)
       THEN pc' = "store" /\ UNCHANGED <<todo, said>> ELSE Fail
    /\ UNCHANGED <<var_mounted, apps, executable, many, mirror, body>>

Verify ==
    /\ pc = "verify"
    /\ IF package_decode(body) /\ package_valid_elf(body) /\ package_hash_valid(body)
       THEN pc' = "store" /\ UNCHANGED <<todo, said>> ELSE Fail
    /\ UNCHANGED <<var_mounted, apps, executable, many, mirror, body>>

\* ext2_store may fail before the name is there, or in the disk_sync at its end.
StoreApp ==
    /\ pc = "store"
    /\ \/ apps' = [apps EXCEPT ![Current] = body] /\ pc' = "chmod" /\ UNCHANGED <<todo, said>>
       \/ apps' \in {apps, [apps EXCEPT ![Current] = body]} /\ Fail
    /\ UNCHANGED <<var_mounted, executable, many, mirror, body>>

varfs_chmod ==
    /\ pc = "chmod"
    /\ \/ executable' = executable \cup {Current} /\ pc' = "sync" /\ UNCHANGED <<todo, said>>
       \/ Fail /\ UNCHANGED executable
    /\ UNCHANGED <<var_mounted, apps, many, mirror, body>>

varfs_sync ==
    /\ pc = "sync" /\ (Done("installed") \/ Fail)
    /\ UNCHANGED <<var_mounted, apps, executable, many, mirror, body>>

-----------------------------------------------------------------------------
(* c_pm                                                                    *)

Install(i) ==
    /\ pc = "idle" /\ pc' = "start" /\ todo' = {i} /\ many' = FALSE /\ said' = <<>>
    /\ UNCHANGED <<var_mounted, apps, executable, mirror, body>>

InstallEssentials ==
    /\ pc = "idle" /\ many' = TRUE
    /\ IF var_mounted
       THEN pc' = "start" /\ todo' = {i \in DOMAIN packages : packages[i] \in Essential} /\ said' = <<>>
       ELSE said' = <<"unmounted">> /\ UNCHANGED <<pc, todo>>
    /\ UNCHANGED <<var_mounted, apps, executable, mirror, body>>

Uninstall(name) ==
    /\ pc = "idle"
    /\ IF package_installed(name)
       THEN \/ /\ apps' = [apps EXCEPT ![name] = "none"] /\ executable' = executable \ {name}
               /\ said' \in {<<"removed", name>>, <<"failed", name>>}
            \/ said' = <<"failed", name>> /\ UNCHANGED <<apps, executable>>
       ELSE said' = <<"absent", name>> /\ UNCHANGED <<apps, executable>>
    /\ UNCHANGED <<var_mounted, pc, todo, many, mirror, body>>

\* The power fails, at any step; the next boot finds the volume or does not.
Power ==
    /\ var_mounted' \in BOOLEAN
    /\ pc' = "idle" /\ todo' = {} /\ many' = FALSE /\ mirror' = 1 /\ body' = "none" /\ said' = <<>>
    /\ UNCHANGED <<apps, executable>>

PmInit ==
    /\ var_mounted \in BOOLEAN /\ apps = [n \in Catalog |-> "none"] /\ executable = {}
    /\ pc = "idle" /\ todo = {} /\ many = FALSE /\ mirror = 1 /\ body = "none" /\ said = <<>>

PmNext ==
    \/ PmStart \/ (\E a \in Answers : package_fetch(a)) \/ Verify \/ StoreApp \/ varfs_chmod \/ varfs_sync
    \/ (\E i \in DOMAIN packages : Install(i)) \/ (\E n \in Catalog : Uninstall(n)) \/ InstallEssentials \/ Power

PmSpec == PmInit /\ [][PmNext]_pm

-----------------------------------------------------------------------------
(* Properties                                                              *)

\* Whatever the mirrors answer and wherever an installation stops, pm leaves no other payload
\* than the one of the catalog under a package's name; what it says is installed is stored
\* and executable, and the essential set is called ready when all of it is there, those
\* packages included that an earlier, interrupted command had stored.
PackagesVerified ==
    /\ \A n \in Catalog : apps[n] \in {"none", "right"}
    /\ said # <<>> /\ said[1] = "installed" => apps[said[2]] = "right" /\ said[2] \in executable
    /\ said = <<"ready">> => \A n \in Essential : apps[n] = "right"
=============================================================================
