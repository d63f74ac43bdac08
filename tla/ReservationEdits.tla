--------------------------- MODULE ReservationEdits ---------------------------
(* The Reservations of one Subnet in Kea and the requests that change them   *)
(* (kea.py: reservation_*, views/reservation_mutations.py, the import of     *)
(* views/sync_views.py). A request holds no lock: it reads the catalogue and *)
(* the target, reads the target again, and sends one command. Kea's own      *)
(* administrators, other requests and the DDNS settings change in between.   *)
(* What persist does is in ConfigWrite.                                      *)
EXTENDS PublishedName, FiniteSets

CONSTANTS
    Ids,            \* Reservation identities
    Pages,          \* requests of operators
    None, Unknown,
    Addresses, PoolAddresses,   \* addresses, and those of the Pool with a suffix
    Hostnames,      \* the hostnames that operators and administrators store
    Entered,        \* the hostnames that operators enter
    OptionData,
    Suffixes,       \* the qualifying suffixes
    Documents,      \* the documents that operators import
    MaxKea,         \* bounds the changes of Kea's administrators
    MaxDns,         \* bounds the changes of the DDNS settings
    MaxFaults       \* bounds lost replies and refusals

ASSUME EditsAssumption ==
    /\ PoolAddresses \subseteq Addresses /\ None \notin Ids
    /\ Hostnames \union Entered \subseteq [labels: Seq(Labels), dot: BOOLEAN]
    /\ Suffixes \subseteq Seq(Labels)

VARIABLES
    host,       \* Kea: the Reservation of each identity
    dns,        \* Kea: the suffixes of the Subnet and of its Pool
    shown,      \* the catalogue that pages show
    page,
    import,     \* the import of a document
    budget

vars == <<host, dns, shown, page, import, budget>>

Reservation == [address: Addresses \union {None}, name: Hostnames \union {NoHostname},
                option: OptionData \union {None}, kept: 0..MaxKea]
Catalogue == [subnet: Suffixes, pool: Suffixes \union {None}, known: BOOLEAN]

\* What the plugin manages: kept stands for the fields that it does not know.
Managed(r) == [address |-> r.address, name |-> r.name, option |-> r.option]

Idle == [pc |-> "idle"]
NoImport == [pc |-> "idle"]

Init ==
    /\ host \in [Ids -> {None} \union {r \in Reservation : r.kept = 0 /\ r.option = None}]
    /\ \A id, other \in Ids : id # other /\ host[id] # None /\ host[other] # None =>
         host[id].address = None \/ host[id].address # host[other].address
    /\ dns \in [subnet: Suffixes, pool: Suffixes \union {None}, known: {TRUE}]
    /\ shown = dns
    /\ page = [p \in Pages |-> Idle]
    /\ import = NoImport
    /\ budget = [kea |-> MaxKea, dns |-> MaxDns, faults |-> MaxFaults]

Spend(kind) == budget[kind] > 0 /\ budget' = [budget EXCEPT ![kind] = @ - 1]
Go(p, me) == page' = [page EXCEPT ![p] = me]

----------------------------------------------------------------------------
(* The hostname.                                                           *)

\* subnet_qualifying_suffix
SuffixAt(d, address) ==
    IF ~d.known \/ (address = None /\ d.pool # None) THEN Unknown
    ELSE IF address \in PoolAddresses /\ d.pool # None THEN d.pool ELSE d.subnet

ShownSuffix(d, r) == IF r.name = NoHostname THEN Unknown ELSE SuffixAt(d, r.address)

ShownName(r, suffix) ==
    IF suffix = Unknown THEN r.name ELSE Stored(Published(r.name, suffix), FALSE)

SuffixMoved(d, current, formSuffix) ==
    current.name # NoHostname /\ formSuffix # Unknown /\ formSuffix # ShownSuffix(d, current)

SuffixOfEntry(d, current, address) == SuffixAt(d, address)

\* The hostname to store, or Unknown when the page refuses the entry.
HostnameChange(d, current, entered, address, formSuffix) ==
    LET asStored == current.name # NoHostname /\ formSuffix = Unknown /\ ShownSuffix(d, current) = Unknown
        suffix == SuffixOfEntry(d, current, address)
        stored == StoredHostname(entered.labels, suffix)
    IN  IF current.name = NoHostname /\ entered = NoHostname THEN current.name
        ELSE IF asStored /\ entered = current.name THEN current.name
        ELSE IF asStored /\ current.address = None /\ d.pool # None THEN Unknown
        ELSE IF SuffixMoved(d, current, formSuffix) \/ suffix = Unknown THEN Unknown
        ELSE IF Published(stored, suffix) = Published(current.name, suffix) THEN current.name
        ELSE stored

----------------------------------------------------------------------------
(* An edit.                                                                *)

\* The form holds the fingerprint of the target and the shown suffix, which
\* comes from the catalogue of pages.
Open(p, id) ==
    /\ page[p] = Idle /\ host[id] # None
    /\ LET suffix == ShownSuffix(shown, host[id])
       IN  Go(p, [pc |-> "form", id |-> id, print |-> Managed(host[id]), suffix |-> suffix,
                  name |-> ShownName(host[id], suffix)])
    /\ UNCHANGED <<host, dns, shown, import, budget>>

\* What an operator submits: a name, an address, an option.
Entries(me) == [name: {me.name, NoHostname} \union Entered, address: {me.print.address} \union Addresses,
                option: {me.print.option, None} \union OptionData]

\* A mutation scope reads the catalogue anew, then the target.
Scope(p) ==
    /\ page[p].pc = "form"
    /\ shown' = dns
    /\ \E entry \in Entries(page[p]) :
          LET me == page[p]
              current == host[me.id]
              name == HostnameChange(dns, current, entry.name, entry.address, me.suffix)
          IN  Go(p, IF current = None THEN Idle
                    ELSE IF name = Unknown THEN Idle
                    ELSE [pc |-> "raw", id |-> me.id, print |-> me.print, form |-> me.name, formSuffix |-> me.suffix,
                          entry |-> entry, suffix |-> SuffixAt(dns, entry.address), current |-> Managed(current),
                          change |-> [address |-> entry.address, name |-> name, option |-> entry.option]])
    /\ UNCHANGED <<host, dns, import, budget>>

\* A field that is as in the first read stays as it is in the second.
Change(me, raw, field) == IF me.change[field] = me.current[field] THEN raw[field] ELSE me.change[field]

\* Mutant: the record is built from what the plugin manages.
MergedManaged(raw, fields) == [address |-> fields.address, name |-> fields.name, option |-> fields.option, kept |-> 0]
Merged(raw, fields) == [address |-> fields.address, name |-> fields.name, option |-> fields.option, kept |-> raw.kept]

SamePrint(me, raw) == Managed(raw) = me.print

\* The second read is compared with the form.
ReadRaw(p) ==
    /\ page[p].pc = "raw"
    /\ LET me == page[p]
           raw == host[me.id]
       IN  Go(p, IF raw = None THEN Idle
                 ELSE IF ~SamePrint(me, raw) THEN Idle
                 ELSE [pc |-> "send", id |-> me.id, print |-> me.print, form |-> me.form, formSuffix |-> me.formSuffix,
                       entry |-> me.entry, suffix |-> me.suffix, steady |-> me.current = Managed(raw), raw |-> raw,
                       intended |-> Merged(raw, [f \in DOMAIN me.change |-> Change(me, raw, f)])])
    /\ UNCHANGED <<host, dns, shown, import, budget>>

\* Kea stores the record. It refuses one that is gone, or an address of another.
Refused(id, r) ==
    \/ host[id] = None
    \/ r.address # None /\ \E other \in Ids \ {id} : host[other] # None /\ host[other].address = r.address

Update(p) ==
    /\ page[p].pc = "send" /\ "intended" \in DOMAIN page[p]
    /\ ~Refused(page[p].id, page[p].intended)
    /\ host' = [host EXCEPT ![page[p].id] = page[p].intended]
    /\ Go(p, Idle)
    /\ UNCHANGED <<dns, shown, import, budget>>

\* A new Reservation: the scope reads the catalogue, then Kea adds the record.
StartAdd(p, id) ==
    /\ page[p] = Idle
    /\ shown' = dns
    /\ \E name \in {NoHostname} \union Entered, address \in Addresses \union {None} :
          LET suffix == SuffixAt(dns, address)
              stored == IF name = NoHostname THEN name ELSE StoredHostname(name.labels, suffix)
          IN  /\ name # NoHostname => suffix # Unknown
              /\ Go(p, [pc |-> "add", id |-> id, form |-> NoHostname, entry |-> [name |-> name], suffix |-> suffix,
                        steady |-> TRUE, intended |-> [address |-> address, name |-> stored, option |-> None, kept |-> 0]])
    /\ UNCHANGED <<host, dns, import, budget>>

Taken(r) == r.address # None /\ \E id \in Ids : host[id] # None /\ host[id].address = r.address

Add(p) ==
    /\ page[p].pc = "add"
    /\ host' = IF host[page[p].id] = None /\ ~Taken(page[p].intended) THEN [host EXCEPT ![page[p].id] = page[p].intended]
               ELSE host
    /\ Go(p, Idle)
    /\ UNCHANGED <<dns, shown, import, budget>>

\* The command fails, or its request is lost: the page shows an error.
Stop(p) ==
    /\ page[p].pc = "send"
    /\ IF "intended" \in DOMAIN page[p] /\ Refused(page[p].id, page[p].intended) THEN UNCHANGED budget ELSE Spend("faults")
    /\ Go(p, Idle)
    /\ UNCHANGED <<host, dns, shown, import>>

\* A delete names the identity: both of its reads only find the target.
FindTarget(p, id) ==
    /\ page[p] = Idle /\ host[id] # None
    /\ shown' = dns
    /\ Go(p, [pc |-> "send", id |-> id])
    /\ UNCHANGED <<host, dns, import, budget>>

Delete(p) ==
    /\ page[p].pc = "send" /\ "intended" \notin DOMAIN page[p]
    /\ host' = [host EXCEPT ![page[p].id] = None]
    /\ Go(p, Idle)
    /\ UNCHANGED <<dns, shown, import, budget>>

----------------------------------------------------------------------------
(* The import of a document: entries with an identity, and what is wrong   *)
(* with them: nothing, a field, or the Subnet or the identity type, which  *)
(* only the live daemon tells.                                             *)

Duplicated(document) ==
    \E i, j \in DOMAIN document : i < j /\ document[i].id = document[j].id

Valid(document) ==
    ~Duplicated(document) /\ \A i \in DOMAIN document : document[i].fault # "field"

Parse(document) ==
    /\ import.pc \in {"idle", "done"}
    /\ import' = IF Valid(document) THEN [pc |-> "resolve", document |-> document] ELSE NoImport
    /\ UNCHANGED <<host, dns, shown, page, budget>>

Resolves(document) == \A i \in DOMAIN document : document[i].fault # "live"

Resolve ==
    /\ import.pc = "resolve"
    /\ shown' = dns
    /\ import' = IF Resolves(import.document)
                 THEN [pc |-> "create", document |-> import.document, sent |-> {}, created |-> {}, failed |-> {}]
                 ELSE NoImport
    /\ UNCHANGED <<host, dns, page, budget>>

NextEntry == Cardinality(import.sent) + 1

\* Mutant: a failure does not stop the import.
GoesOn(followed) == TRUE
Continues(followed) == followed

New(entry) == [address |-> entry.address, name |-> NoHostname, option |-> None, kept |-> 0]

\* Kea creates one entry, and the follow-up actions run. Kea refuses an identity
\* or an address that exists, the reply of an entry that it created can be lost,
\* and a follow-up action can fail.
CreateEntry ==
    /\ import.pc = "create" /\ NextEntry \in DOMAIN import.document
    /\ LET entry == import.document[NextEntry]
           refused == host[entry.id] # None \/ Taken(entry)
       IN  \E result \in IF refused THEN {"refused"} ELSE {"created", "lost", "unfollowed"} :
              /\ IF result \in {"lost", "unfollowed"} THEN Spend("faults") ELSE UNCHANGED budget
              /\ host' = IF result = "refused" THEN host ELSE [host EXCEPT ![entry.id] = New(entry)]
              /\ import' = [import EXCEPT !.sent = @ \union {NextEntry},
                               !.created = IF result \in {"created", "unfollowed"} THEN @ \union {NextEntry} ELSE @,
                               !.failed = IF result = "created" THEN @ ELSE @ \union {NextEntry},
                               !.pc = IF Continues(result = "created") THEN @ ELSE "done"]
    /\ UNCHANGED <<dns, shown, page>>

\* The page shows created, failed and not attempted entries.
EndImport ==
    /\ import.pc = "create" /\ NextEntry \notin DOMAIN import.document
    /\ import' = [import EXCEPT !.pc = "done"]
    /\ UNCHANGED <<host, dns, shown, page, budget>>

----------------------------------------------------------------------------
(* Kea's administrators, and the catalogue of pages.                       *)

KeaChanges(id) ==
    /\ Spend("kea")
    /\ \E r \in Reservation \union {None} :
          /\ r # host[id] /\ (r # None => ~\E other \in Ids \ {id} :
                                   host[other] # None /\ r.address # None /\ host[other].address = r.address)
          /\ host' = [host EXCEPT ![id] = r]
    /\ UNCHANGED <<dns, shown, page, import>>

DnsChanges ==
    /\ Spend("dns")
    /\ \E d \in Catalogue : d # dns /\ dns' = d
    /\ UNCHANGED <<host, shown, page, import>>

RefreshPages == shown # dns /\ shown' = dns /\ UNCHANGED <<host, dns, page, import, budget>>

Next ==
    \/ \E p \in Pages, id \in Ids : Open(p, id) \/ FindTarget(p, id) \/ StartAdd(p, id)
    \/ \E p \in Pages : Scope(p) \/ ReadRaw(p) \/ Update(p) \/ Add(p) \/ Stop(p) \/ Delete(p)
    \/ \E document \in Documents : Parse(document)
    \/ Resolve \/ CreateEntry \/ EndImport
    \/ \E id \in Ids : KeaChanges(id)
    \/ DnsChanges \/ RefreshPages

Spec == Init /\ [][Next]_vars

----------------------------------------------------------------------------
(* Properties.                                                             *)

Storing(p) == "intended" \in DOMAIN page[p] /\ host' # host /\ page'[p] = Idle
Updating(p) == page[p].pc = "send" /\ Storing(p)

(* The fields of a Reservation that the plugin does not know survive an    *)
(* edit, also when they changed after the form was opened                  *)
(* (reservation_change: the record is merged into the second read).        *)
UnknownKept ==
    [][\A p \in Pages : Updating(p) /\ host[page[p].id] = page[p].raw =>
          host'[page[p].id].kept = host[page[p].id].kept]_vars

\* The form shows one label though there is a suffix: the stored hostname has
\* a dot after it. Such a name takes the suffix when it is saved.
ShownBare(me) == me.formSuffix # NoName /\ Len(me.form.labels) = 1

(* A saved Reservation keeps its stored hostname until the operator edits  *)
(* the name or moves the address (README.md:61, _hostname_change).         *)
StoredNameStays ==
    [][\A p \in Pages : Updating(p) /\ page[p].steady /\ page[p].formSuffix # Unknown
                        /\ host[page[p].id] = page[p].raw /\ ~ShownBare(page[p])
                        /\ page[p].entry.name = page[p].form /\ page[p].entry.address = page[p].print.address =>
          host'[page[p].id].name = host[page[p].id].name]_vars

(* An edit changes what the operator entered and nothing else, when nobody *)
(* else writes between its reads and its command (reservation_change,      *)
(* _change).                                                               *)
OnlyWhatWasEntered ==
    [][\A p \in Pages : Updating(p) /\ page[p].steady /\ host[page[p].id] = page[p].raw =>
          LET me == page[p]
              now == host'[me.id]
          IN  /\ now.address = me.entry.address /\ now.option = me.entry.option
              /\ me.entry.address = me.print.address /\ me.entry.option = me.print.option /\ me.entry.name = me.form
                 /\ me.formSuffix # Unknown /\ ~ShownBare(me) => now = host[me.id]]_vars

\* An edit changes what the operator entered, and leaves the rest of the record to Kea.
EditKeepsTheRest == UnknownKept /\ OnlyWhatWasEntered /\ StoredNameStays

(* The name that an operator entered is the name that Kea publishes at the *)
(* entered address, with the suffix added to a single label, whatever the  *)
(* suffixes of the Subnet and its Pool are (stored_hostname,               *)
(* _hostname_change).                                                      *)
PublishesEntered ==
    [][\A p \in Pages : Storing(p) /\ page[p].steady /\ page[p].suffix # Unknown
                        /\ page[p].entry.name # page[p].form =>
          LET me == page[p]
              name == me.entry.name.labels
              published == Published(host'[me.id].name, me.suffix)
          IN  IF Len(name) = 1 THEN published \in {Lower(name), Lower(name \o me.suffix)}
              ELSE published = Lower(name)]_vars

(* A name that the operator left as the form showed it goes on to be       *)
(* published, also at a new address with another suffix, and also when the *)
(* settings changed after the form was opened. Only a single label takes   *)
(* the suffix of a new address (_hostname_change).                         *)
ShownNameStays ==
    [][\A p \in Pages : Updating(p) /\ page[p].steady /\ page[p].formSuffix # Unknown
                        /\ page[p].entry.name = page[p].form /\ page[p].suffix # Unknown
                        /\ ~ShownBare(page[p])
                        /\ (Len(page[p].form.labels) # 1 \/ page[p].entry.address = page[p].print.address) =>
          Published(host'[page[p].id].name, page[p].suffix) = page[p].form.labels]_vars

\* Kea publishes the entered or the shown name, whatever the suffixes are.
PublishesTheName == PublishesEntered /\ ShownNameStays

(* An import sends nothing before the whole document is valid, and nothing *)
(* after the first failure, also when Kea created the entry and a          *)
(* follow-up action failed (parse_reservation_document,                    *)
(* _create_reservations).                                                  *)
ImportStops ==
    import.pc \in {"create", "done"} =>
        /\ Valid(import.document) /\ Resolves(import.document)
        /\ \A i \in import.sent : \A j \in 1..(i - 1) : j \in import.created
        /\ \A i \in import.failed, j \in import.sent : j <= i

=============================================================================
