----------------------------- MODULE MCServices -----------------------------
(* Small instances, for TLC, of accounts, file transfers and what a client  *)
(* keeps on its disk.  They share no state: in each behaviour one runs and  *)
(* the others rest.                                                         *)
EXTENDS Accounts, Transfer, Images, Settings

CONSTANTS a, b, ourServer, otherServer, ada, eve

VARIABLE part

MCOthers == {<<ourServer, ada>>}

Parted == {"accounts", "transfer", "images", "settings"}

MCInit ==
    /\ AccountsInit /\ TransferInit /\ ImagesInit /\ SettingsInit
    /\ part \in Parted
    /\ part # "accounts" => url = ourServer
    /\ part # "images" => sound /\ worker

MCNext ==
    \/ /\ part = "accounts" /\ AccountsNext
       /\ UNCHANGED <<part, transferVars, imageVars, settingsVars>>
    \/ /\ part = "transfer" /\ TransferNext
       /\ UNCHANGED <<part, accountVars, imageVars, settingsVars>>
    \/ /\ part = "images" /\ ImagesNext
       /\ UNCHANGED <<part, accountVars, transferVars, settingsVars>>
    \/ /\ part = "settings" /\ SettingsNext
       /\ UNCHANGED <<part, accountVars, transferVars, imageVars>>

allVars == <<part, accountVars, transferVars, imageVars, settingsVars>>

MCSpec == MCInit /\ [][MCNext]_allVars

(* The transfers shown are those that go on, and what one wrote stays.      *)
(* (ui/transfers.rs, transfer/mod.rs)                                       *)
TransfersShown == RowsFollowJobs /\ FilesKept

(* What a client keeps on its own disk survives its being killed and its    *)
(* writes failing, and is shown or gone by again. (ui/images.rs, cache.rs,  *)
(* settings.rs)                                                             *)
Stored == PicturesAppear /\ SettingsKept

=============================================================================
