----------------------------- MODULE ConfigSync -----------------------------
(***************************************************************************)
(* services/config_sync.py: the configuration of a user as a document.     *)
(* export_config writes it, import_config converges to it, matching by     *)
(* name.  An import is one transaction.                                    *)
(*                                                                         *)
(* A monitor has one settable field beside its group, a channel a secret   *)
(* and a plain setting, a rule a monitor and a channel.                    *)
(***************************************************************************)
EXTENDS Naturals, FiniteSets, Functions

CONSTANTS
    Groups, Monitors, Channels,   \* names
    Settings,                     \* values of a monitor's field
    Default,                      \* _DEFAULTS: the value an export leaves out
    MaxRules,                     \* bound: equal rules
    MaxEdits                      \* bound: edits of configuration and document

VARIABLES
    db,       \* the configuration
    doc,      \* a document, or an empty one
    edits

vars == <<db, doc, edits>>

None == "none"
Stars == "***"
NoMonitor == [there |-> FALSE, setting |-> Default, group |-> None]
NoChannel == [there |-> FALSE, plain |-> FALSE, secret |-> None]
Secrets == {None, "key", Stars}
MonitorRows == {NoMonitor} \cup
    [there : {TRUE}, setting : Settings, group : Groups \cup {None}]
ChannelRows == {NoChannel} \cup [there : {TRUE}, plain : BOOLEAN, secret : Secrets]

\* A rule whose channel was deleted stays, without a channel.
Rules == Monitors \X (Channels \cup {None})
Configs == [groups : SUBSET Groups, monitors : [Monitors -> MonitorRows],
            channels : [Channels -> ChannelRows], rules : [Rules -> 0 .. MaxRules]]
Empty == [groups |-> {}, monitors |-> [m \in Monitors |-> NoMonitor],
          channels |-> [c \in Channels |-> NoChannel], rules |-> [r \in Rules |-> 0]]

ConfigConstants == None \notin Groups /\ MaxRules \in Nat \ {0} /\ MaxEdits \in Nat

Init == db = Empty /\ doc = Empty /\ edits = 0
-----------------------------------------------------------------------------
\* _redact_config and export_config.  What has its default value is left out of
\* the document, which is where a document says Default.
Redacted(c) == [c EXCEPT !.secret = IF @ = None THEN None ELSE Stars]
ExportConfig(config) ==
    [config EXCEPT !.channels = [c \in Channels |-> Redacted(config.channels[c])]]

\* _is_redacted, of a config that is not empty.
IsRedacted(c) == ~ c.plain /\ c.secret # "key"

\* import_config, one kind of object after the other.
ImportGroups(config, d, prune) ==
    IF prune THEN d.groups ELSE config.groups \cup d.groups

\* Mutant: a redacted configuration is imported like any other.
ImportChannelRedacted(old, new, prune) ==
    CASE new.there             -> new
      [] ~ new.there /\ prune  -> NoChannel
      [] OTHER                 -> old

ImportChannel(old, new, prune) ==
    CASE new.there /\ ~ (old.there /\ IsRedacted(new)) -> new
      [] ~ new.there /\ prune                          -> NoChannel
      [] OTHER                                         -> old

\* Of an existing monitor, the fields the document names; of its group, a name
\* the document declares.
ImportMonitor(old, new, d, prune) ==
    LET group == IF new.group \in d.groups THEN new.group ELSE None IN
    CASE new.there /\ old.there ->
            [old EXCEPT !.setting = IF new.setting = Default THEN @ ELSE new.setting,
                        !.group   = IF group = None THEN @ ELSE group]
      [] new.there /\ ~ old.there -> [new EXCEPT !.group = group]
      [] ~ new.there /\ prune     -> NoMonitor
      [] OTHER                    -> old

\* Deletions: a group leaves its monitors, a monitor takes its rules along, a
\* channel leaves its rules.
Detached(m, groups) == [m EXCEPT !.group = IF @ \in groups THEN @ ELSE None]
RulesLeft(config, monitors, channels, r) ==
    LET gone == {c \in Channels : config.channels[c].there /\ ~ channels[c].there}
        orphans(m) == {<<m, c>> : c \in gone}
    IN  IF ~ monitors[r[1]].there \/ r[2] \in gone THEN 0
        ELSE IF r[2] = None THEN config.rules[r] + SumFunctionOnSet(config.rules, orphans(r[1]))
        ELSE config.rules[r]

\* A rule of the document is created if it has a channel the document declares;
\* no rule is matched or deleted.
RulesMade(d, r) == IF r[2] # None /\ d.channels[r[2]].there THEN d.rules[r] ELSE 0

ImportConfig(config, d, prune) ==
    LET groups == ImportGroups(config, d, prune)
        channels == [c \in Channels |->
                        ImportChannel(config.channels[c], d.channels[c], prune)]
        monitors == [m \in Monitors |->
                        Detached(ImportMonitor(config.monitors[m], d.monitors[m], d, prune),
                                 groups)]
    IN  [groups |-> groups, channels |-> channels, monitors |-> monitors,
         rules |-> [r \in Rules |->
                       RulesLeft(config, monitors, channels, r) + RulesMade(d, r)]]

\* The plan of a dry run: names created and deleted, and monitors updated.
DryRun(config, d, prune) ==
    LET listed(old, new) == [created |-> new \ old,
                             deleted |-> IF prune THEN old \ new ELSE {}]
        monitorsOf(x) == {m \in Monitors : x.monitors[m].there}
        channelsOf(x) == {c \in Channels : x.channels[c].there}
        regrouped(m) == d.monitors[m].group \in d.groups \ {config.monitors[m].group}
    IN  [groups   |-> listed(config.groups, d.groups),
         channels |-> listed(channelsOf(config), channelsOf(d)),
         monitors |-> listed(monitorsOf(config), monitorsOf(d)),
         updated  |-> {m \in monitorsOf(config) \cap monitorsOf(d) :
                          \/ d.monitors[m].setting \notin
                                {Default, config.monitors[m].setting}
                          \/ regrouped(m)}]
-----------------------------------------------------------------------------
\* The CRUD endpoints.
Edit(config) ==
    /\ edits < MaxEdits /\ edits' = edits + 1
    /\ db' = config /\ db' # db
    /\ UNCHANGED doc

EditGroup == \E g \in Groups :
    \/ Edit([db EXCEPT !.groups = @ \cup {g}])
    \/ Edit([db EXCEPT !.groups = @ \ {g},
                       !.monitors = [m \in Monitors |-> Detached(@[m], db.groups \ {g})]])

EditMonitor == \E m \in Monitors :
    \/ \E s \in Settings, g \in db.groups \cup {None} :
          Edit([db EXCEPT !.monitors[m] = [there |-> TRUE, setting |-> s, group |-> g]])
    \/ Edit([db EXCEPT !.monitors[m] = NoMonitor,
                       !.rules = [r \in Rules |-> IF r[1] = m THEN 0 ELSE @[r]]])

EditChannel == \E c \in Channels, p \in BOOLEAN, s \in {None, "key"} :
    Edit([db EXCEPT !.channels[c] = [there |-> TRUE, plain |-> p, secret |-> s]])

AddRule == \E r \in Rules :
    /\ db.monitors[r[1]].there /\ r[2] # None /\ db.channels[r[2]].there
    /\ db.rules[r] = 0
    /\ Edit([db EXCEPT !.rules[r] = 1])

Export ==
    /\ doc' = ExportConfig(db)
    /\ UNCHANGED <<db, edits>>

\* The document is edited by hand.
EditDoc ==
    /\ edits < MaxEdits /\ edits' = edits + 1
    /\ \E m \in Monitors :
          \/ \E s \in Settings : doc' = [doc EXCEPT !.monitors[m].setting = s]
          \/ doc' = [doc EXCEPT !.monitors[m] = NoMonitor,
                                !.rules = [r \in Rules |-> IF r[1] = m THEN 0 ELSE @[r]]]
    /\ doc.monitors # doc'.monitors
    /\ doc' \in Configs
    /\ UNCHANGED db

Import ==
    /\ \E prune \in BOOLEAN : db' = ImportConfig(db, doc, prune)
    /\ db' \in Configs
    /\ UNCHANGED <<doc, edits>>

Next == EditGroup \/ EditMonitor \/ EditChannel \/ AddRule \/ Export \/ EditDoc \/ Import

Spec == Init /\ [][Next]_vars
-----------------------------------------------------------------------------
TypeOK == db \in Configs /\ doc \in Configs /\ edits \in 0 .. MaxEdits

\* Importing a document twice is importing it once, rules aside, from every
\* configuration that edits, exports and imports lead to (import_config).
SameButRules(a, b) ==
    a.groups = b.groups /\ a.monitors = b.monitors /\ a.channels = b.channels
ImportConverges ==
    \A prune \in BOOLEAN :
        LET once == ImportConfig(db, doc, prune)
        IN  SameButRules(ImportConfig(once, doc, prune), once)

\* A backup that is imported again leaves monitors, groups and every rule's
\* monitor and channel in place: redaction and the defaults that an export
\* leaves out cost none of them (export_config, import_config).
BackupHarmless ==
    LET again == ImportConfig(db, ExportConfig(db), TRUE)
    IN  /\ again.groups = db.groups /\ again.monitors = db.monitors
        /\ \A r \in Rules : again.rules[r] >= db.rules[r]
        /\ \A c \in Channels :
              ~ db.channels[c].plain => again.channels[c] = db.channels[c]

\* What a dry run foretells of names and monitors is what the import then does.
DryRunForetells ==
    \A prune \in BOOLEAN :
        LET plan == DryRun(db, doc, prune)
            after == ImportConfig(db, doc, prune)
        IN  /\ after.groups = (db.groups \cup plan.groups.created) \ plan.groups.deleted
            /\ \A m \in Monitors :
                  /\ m \in plan.monitors.created
                        <=> ~ db.monitors[m].there /\ after.monitors[m].there
                  /\ m \in plan.monitors.deleted
                        <=> db.monitors[m].there /\ ~ after.monitors[m].there
                  /\ after.monitors[m].there /\ db.monitors[m].there
                        => (m \in plan.updated <=>
                               Detached(db.monitors[m], after.groups) # after.monitors[m])

\* An import may be relied on, from every configuration that edits and imports
\* lead to: repeated, as the restore of a backup, and as foretold.
ImportDependable == ImportConverges /\ BackupHarmless /\ DryRunForetells

\* "Name-based matching - resources matched by name (not UUID) for portability
\* and idempotence" (CHANGELOG.md).
ReimportChangesNothing == ImportConfig(db, ExportConfig(db), TRUE) = db
=============================================================================
