------------------------------ MODULE Parties -------------------------------
(***************************************************************************)
(* The customers, or the suppliers, of an organisation: how the payloads   *)
(* of the API find or create them (apps/billing/services/                  *)
(* resolution_service.py), how Stripe's imports seed the customers         *)
(* (apps/payments/providers/stripe/sync.py), and how the user edits them.  *)
(* A look-up and the creation that follows are two transactions.  The      *)
(* external identifier is unique, the SIREN is not.                        *)
(***************************************************************************)
EXTENDS Naturals

CONSTANTS
  Clerks,     \* gunicorn and Celery workers
  ExternalIds,
  Sirens,
  None,       \* no identifier, and no request
  MaxParties  \* bound: how many parties there are

Known == 1..MaxParties

\* A payload names a party by its external identifier (customer_id,
\* supplier_id), describes it (recipient, supplier), or comes from Stripe.
\* The UUID of a payload that does not match is ignored.
Requests ==
  [pattern : {"referenced"}, external : ExternalIds, siren : {None}]
    \union [pattern : {"inline"}, external : ExternalIds \union {None}, siren : Sirens \union {None}]
    \union [pattern : {"stripe"}, external : ExternalIds, siren : {None}]

\* A row of the table: its identifiers, and where its other fields come from.
Party ==
  [external : ExternalIds \union {None}, siren : Sirens \union {None},
   data : {"payload", "stripe", "edited"}]

\* An identifier says by itself which of the two it is.
ASSUME PartiesAssumption ==
  /\ None \notin ExternalIds \union Sirens \union Requests \union Party
  /\ ExternalIds \intersect Sirens = {}
  /\ MaxParties \in Nat

VARIABLES
  model,   \* which table this is: customers or suppliers
  parties, \* the rows
  request, \* the request each worker handles, once its look-up found nothing
  named,   \* history: the party each identifier leads to, since the user touched it
  overlap  \* history: a party came up while a request that had looked was under way

partyVars == <<model, parties, request, named, overlap>>

PartiesInit ==
  /\ model \in {"customer", "supplier"}
  /\ parties = [p \in Known |-> None]
  /\ request = [w \in Clerks |-> None]
  /\ named = {}
  /\ overlap = FALSE

Rows == {p \in Known : parties[p] # None}

ByExternal(e) == {p \in Rows : parties[p].external = e}

BySiren(s) == {p \in Rows : parties[p].siren = s}

\* An external identifier decides, where there is one; for suppliers that are
\* described, only if it is found.
DecidesByExternal(r) ==
  /\ r.external # None
  /\ r.pattern = "inline" /\ model = "supplier" => ByExternal(r.external) # {}

Matches(r) == IF DecidesByExternal(r) THEN ByExternal(r.external) ELSE BySiren(r.siren)

Identifier(r) == IF DecidesByExternal(r) THEN r.external ELSE r.siren

\* Only customers come from Stripe, and there must be something to match.
CanLook(w, r) ==
  /\ request[w] = None
  /\ r.pattern = "stripe" => model = "customer"
  /\ Identifier(r) # None

\* Mutation: an import overwrites the customer that it finds.
ResolveAndSeed(w, r) ==
  /\ CanLook(w, r)
  /\ \E p \in Rows :
       /\ Matches(r) = {p}
       /\ named' = named \union {<<Identifier(r), p>>}
       /\ parties' = IF r.pattern = "stripe" THEN [parties EXCEPT ![p].data = "stripe"] ELSE parties
  /\ UNCHANGED <<model, request, overlap>>

\* Model.objects.get finds the party, archived or not.  Several rows raise an
\* error, and nothing changes.
Resolve(w, r) ==
  /\ CanLook(w, r)
  /\ \E p \in Rows : Matches(r) = {p} /\ named' = named \union {<<Identifier(r), p>>}
  /\ UNCHANGED <<model, parties, request, overlap>>

\* Nothing is found: a payload that describes the party goes on to create it, and
\* so does Stripe's.  A reference to nothing is refused.
LookInVain(w, r) ==
  /\ CanLook(w, r)
  /\ Matches(r) = {} /\ r.pattern # "referenced"
  /\ request' = [request EXCEPT ![w] = r]
  /\ UNCHANGED <<model, parties, named, overlap>>

\* Mutation: the external identifier is not unique.
FreeAlways(e) == TRUE

FreeExternal(e) == e = None \/ ByExternal(e) = {}

Add(e, s, data) ==
  /\ Rows # Known
  /\ parties' = [parties EXCEPT ![CHOOSE p \in Known \ Rows : TRUE] =
                   [external |-> e, siren |-> s, data |-> data]]

\* History: others have looked and not created yet.
Overlapping(others) == overlap' = (overlap \/ \E v \in others : request[v] # None)

\* _create_customer, _create_supplier.
Create(w) ==
  LET r == request[w]
      id == IF r.external # None THEN r.external ELSE r.siren IN
  /\ r # None /\ r.pattern = "inline"
  /\ FreeExternal(r.external)
  /\ Add(r.external, r.siren, "payload")
  /\ named' = named \union {<<id, p>> : p \in {p \in Known : parties'[p] # parties[p]}}
  /\ request' = [request EXCEPT ![w] = None]
  /\ Overlapping(Clerks \ {w})
  /\ UNCHANGED model

\* IntegrityError, or the worker dies.
Drop(w) ==
  /\ request[w] # None
  /\ request' = [request EXCEPT ![w] = None]
  /\ UNCHANGED <<model, parties, named, overlap>>

\* update_or_create: Stripe's data, over whatever bears the identifier by now.
Upsert(e) ==
  \/ ByExternal(e) = {} /\ Add(e, None, "stripe")
  \/ \E p \in ByExternal(e) : parties' = [parties EXCEPT ![p].data = "stripe"]

\* import_customer_from_invoice
Seed(w) ==
  /\ request[w] # None /\ request[w].pattern = "stripe"
  /\ Upsert(request[w].external)
  /\ request' = [request EXCEPT ![w] = None]
  /\ Overlapping(Clerks \ {w})
  /\ UNCHANGED <<model, named>>

\* The page of Stripe's customers imports one again, or all of them.
ImportCustomer(e) ==
  /\ model = "customer"
  /\ Upsert(e)
  /\ Overlapping(Clerks)
  /\ UNCHANGED <<model, request, named>>

\* The forms and the API.
AddParty(e, s) ==
  /\ FreeExternal(e)
  /\ Add(e, s, "edited")
  /\ Overlapping(Clerks)
  /\ UNCHANGED <<model, request, named>>

\* Every field may change, the identifiers included.
EditParty(p, e, s) ==
  /\ e = parties[p].external \/ FreeExternal(e)
  /\ parties' = [parties EXCEPT ![p] = [external |-> e, siren |-> s, data |-> "edited"]]
  /\ named' = {n \in named : n[2] # p \/ n[1] \in {e, s}}
  /\ Overlapping(Clerks)
  /\ UNCHANGED <<model, request>>

DeleteParty(p) ==
  /\ parties' = [parties EXCEPT ![p] = None]
  /\ named' = {n \in named : n[2] # p}
  /\ UNCHANGED <<model, request, overlap>>

PartiesNext ==
  \/ \E w \in Clerks :
       \/ \E r \in Requests : Resolve(w, r) \/ LookInVain(w, r)
       \/ Create(w) \/ Drop(w) \/ Seed(w)
  \/ \E e \in ExternalIds : ImportCustomer(e)
  \/ \E e \in ExternalIds \union {None}, s \in Sirens \union {None} :
       AddParty(e, s) \/ \E p \in Rows : EditParty(p, e, s)
  \/ \E p \in Rows : DeleteParty(p)

PartiesSpec == PartiesInit /\ [][PartiesNext]_partyVars

PartiesTypeOK ==
  /\ model \in {"customer", "supplier"}
  /\ parties \in [Known -> Party \union {None}]
  /\ request \in [Clerks -> Requests \union {None}]
  /\ named \subseteq (ExternalIds \union Sirens) \X Known
  /\ overlap \in BOOLEAN

\* Requests that bear one identifier are linked to one party, as long as the user
\* leaves it its identifier: by an external identifier always, by a SIREN unless a
\* party came up between a look-up and the creation that followed it.
StableIdentity ==
  \A a, b \in named :
    a[1] = b[1] /\ (a[1] \in ExternalIds \/ ~overlap) => a[2] = b[2]

\* "Stripe's invoice-time data only seeds the Customer when it is first created"
\* (services.py): no import of an invoice overwrites what the user or a payload
\* has entered, unless the customer came up after the import looked for it.
OnlySeeds ==
  [][\A p \in Rows :
       /\ parties[p].data # "stripe" /\ ~overlap'
       /\ \A e \in ExternalIds : ~ImportCustomer(e)
       => parties'[p] = None \/ parties'[p].data # "stripe"]_partyVars
=============================================================================
