------------------------------ MODULE WebQueries ------------------------------
(* The queries and the mutations of the web client: which tables the endpoint of  *)
(* each view reads and the endpoint of each mutation writes, and which keys each   *)
(* mutation's onSuccess invalidates.                                              *)
EXTENDS Sequences, SequencesExt, TLC
-----------------------------------------------------------------------------
(* The views of each part and the tables their endpoints read. Where only some of  *)
(* a table's writes can be seen, the part they write has a name of its own: the     *)
(* price of an asset, the recipes in a plan, the payment of a due date.            *)
FeohViews ==
  (<<"accounts">>     :> {"accounts"}) @@
  (<<"envelopes">>    :> {"envelopes"}) @@
  (<<"summary">>      :> {"envelopes", "transactions"}) @@
  (<<"transactions">> :> {"transactions"}) @@
  (<<"bills">>        :> {"bills"}) @@
  (<<"itemCosts">>    :> {"costs", "bills", "payments", "prices"}) @@
  (<<"occurrences">>  :> {"bills", "payments", "skips"}) @@
  (<<"ledger">>       :> {"transactions"})

ImportViews ==
  (<<"feoh", "import", "status">>   :> {"inbox", "cursor"}) @@
  (<<"feoh", "import", "inbox">>    :> {"inbox"}) @@
  (<<"feoh", "import", "rules">>    :> {"rules"}) @@
  (<<"feoh", "import", "accounts">> :> {"mappings"})

EthelViews ==
  (<<"ethel", "list">>   :> {"assets", "details", "places"}) @@
  (<<"ethel", "asset">>  :> {"assets", "details"}) @@
  (<<"ethel", "places">> :> {"places"})

WeorcViews ==
  (<<"weorc", "routines">>           :> {"routines", "chores"}) @@
  (<<"weorc", "routines", "navDue">> :> {"chores"}) @@
  (<<"weorc", "routineHistory">>     :> {"ended"})

MealsViews ==
  (<<"recipes", "paged">> :> {"recipes"}) @@
  (<<"mealPlan", "week">> :> {"plan", "planned recipes"}) @@
  (<<"shoppingList">>     :> {"list"})

TasksViews ==
  (<<"tasks", "open">>      :> {"tasks"}) @@
  (<<"tasks", "lists">>     :> {"lists", "my connections"}) @@
  (<<"tasks", "allowlist">> :> {"lists"})

CalendarViews ==
  (<<"events", "range">>          :> {"events", "mirror"}) @@
  (<<"calendar", "calendars">>    :> {"calendars", "my connections"})

HouseholdViews ==
  (<<"whoami">>    :> {"me"}) @@
  (<<"household">> :> {"household"}) @@
  (<<"members">>   :> {"members"})

KeysViews ==
  (<<"apiKeys">>       :> {"my keys"}) @@
  (<<"householdKeys">> :> {"my keys", "keys"})

LibraryViews ==
  (<<"library", "connections">> :> {"accounts of shelves"}) @@
  (<<"library", "items">>       :> {"shelves"})

GewritViews == <<"gewrit", "element">> :> {"links"}

IntegrationsViews ==
  (<<"integrations", "status">>     :> {"all connections", "feeds", "designation"}) @@
  (<<"integrations", "feedStatus">> :> {"feeds"})

Reads == FeohViews @@ ImportViews @@ EthelViews @@ WeorcViews @@ MealsViews @@ TasksViews
         @@ CalendarViews @@ HouseholdViews @@ KeysViews @@ LibraryViews @@ GewritViews
         @@ IntegrationsViews
-----------------------------------------------------------------------------
(* What the endpoint behind each mutation changes. *)
FeohWrites ==
  [createAccount |-> {"accounts"}, createEnvelope |-> {"envelopes"},
   recordTransaction |-> {"transactions"}, importCsv |-> {"transactions"},
   reconcileAccount |-> {"transactions"},
   createBill |-> {"bills"}, deleteBill |-> {"bills"},
   linkOccurrence |-> {"payments"}, unlinkOccurrence |-> {"payments"},
   skipOccurrence |-> {"skips"}, unskipOccurrence |-> {"skips"}, overrideOccurrence |-> {"skips"},
   createItemCost |-> {"costs"}, deleteItemCost |-> {"costs"}]

ImportWrites ==
  [triggerSync |-> {"inbox", "cursor", "transactions"},
   confirmInboxRow |-> {"inbox", "transactions"}, dismissInboxRow |-> {"inbox"},
   createRule |-> {"rules", "inbox", "transactions"},
   updateRule |-> {"rules", "inbox", "transactions"}, deleteRule |-> {"rules"},
   upsertAccountMapping |-> {"mappings", "inbox", "transactions"},
   deleteAccountMapping |-> {"mappings"}]

EthelWrites ==
  [createAsset |-> {"assets"}, updateAsset |-> {"assets", "prices"},
   decommissionAsset |-> {"assets", "prices"},
   deleteAsset |-> {"assets", "details", "routines"},
   upsertVehicle |-> {"details"}, deleteVehicle |-> {"details"},
   upsertFacility |-> {"details"}, deleteFacility |-> {"details"},
   createPlace |-> {"places"}, updatePlace |-> {"places"},
   deletePlace |-> {"places", "assets", "details", "routines"}]

WeorcWrites ==
  [completeOccurrence |-> {"chores", "ended", "tasks"}, skipOccurrenceOfRoutine |-> {"chores", "ended", "tasks"},
   createRoutine |-> {"routines", "chores"}, updateRoutine |-> {"routines", "chores"}]

MealsWrites ==
  [createRecipe |-> {"recipes"}, updateRecipe |-> {"recipes", "planned recipes"},
   deleteRecipe |-> {"recipes", "planned recipes", "plan"},
   upsertPlanEntry |-> {"plan"}, deletePlanEntry |-> {"plan"},
   generateShoppingList |-> {"list"}, addShoppingItem |-> {"list"},
   updateShoppingItem |-> {"list"}, removeShoppingItem |-> {"list"}]

TasksWrites ==
  [completeTask |-> {"tasks"}, createTask |-> {"tasks"},
   setAllowlist |-> {"lists", "tasks", "feeds"}, setHouseholdList |-> {"lists", "designation"}]

CalendarWrites ==
  [createEvent |-> {"events"}, updateEvent |-> {"events"}, moveEvent |-> {"events"},
   deleteEvent |-> {"events"}]

CalendarSelectionWrites ==
  [setCalendarAllowlist |-> {"calendars", "mirror", "feeds"},
   setHouseholdCalendar |-> {"calendars", "designation"}]

HouseholdWrites ==
  [createMember |-> {"members"}, updateMember |-> {"members", "me"},
   setMemberRole |-> {"members", "me"},
   deleteMember |-> {"members", "keys", "events", "mirror", "tasks", "plan", "routines",
                     "all connections", "designation", "accounts of shelves", "shelves"},
   updateHousehold |-> {"household"}]

KeysWrites ==
  [createApiKey |-> {"my keys"}, revokeApiKey |-> {"my keys"},
   revokeHouseholdKey |-> {"my keys", "keys"}]

LibraryWrites ==
  [createLibraryThing |-> {"accounts of shelves"}, pollTraktDevice |-> {"accounts of shelves"},
   syncConnection |-> {"accounts of shelves", "shelves"},
   deleteConnection |-> {"accounts of shelves", "shelves"},
   importFile |-> {"accounts of shelves", "shelves"}]

GewritWrites == [createLink |-> {"links"}, updateLink |-> {"links"}, deleteLink |-> {"links"}]

IntegrationsWrites ==
  [disconnect |-> {"my connections", "all connections"},
   syncNow |-> {"all connections", "feeds", "mirror", "tasks"}]

Writes == FeohWrites @@ ImportWrites @@ EthelWrites @@ WeorcWrites @@ MealsWrites @@ TasksWrites
          @@ CalendarWrites @@ CalendarSelectionWrites @@ HouseholdWrites @@ KeysWrites
          @@ LibraryWrites @@ GewritWrites @@ IntegrationsWrites
-----------------------------------------------------------------------------
(* The keys each mutation's onSuccess invalidates. *)
FeohInvalidates ==
  LET booked == {<<"transactions">>, <<"summary">>}
      due    == {<<"occurrences">>}
  IN [createAccount |-> {<<"accounts">>}, createEnvelope |-> {<<"envelopes">>},
      recordTransaction |-> booked, importCsv |-> booked,
      reconcileAccount |-> booked \cup {<<"ledger">>},
      createBill |-> {<<"bills">>}, deleteBill |-> {<<"bills">>},
      linkOccurrence |-> due, unlinkOccurrence |-> due, skipOccurrence |-> due,
      unskipOccurrence |-> due, overrideOccurrence |-> due,
      createItemCost |-> {<<"itemCosts">>}, deleteItemCost |-> {<<"itemCosts">>}]

\* Seeded fault: the account balances are left out of what an import refreshes.
ImportWithoutLedger ==
  {<<"feoh", "import", "inbox">>, <<"feoh", "import", "status">>, <<"transactions">>, <<"summary">>}

(* "Everything an import write can change". *)
ImportChanges ==
  {<<"feoh", "import", "inbox">>, <<"feoh", "import", "status">>, <<"transactions">>, <<"summary">>,
   <<"ledger">>}

ImportInvalidates ==
  [triggerSync |-> ImportChanges, confirmInboxRow |-> ImportChanges, dismissInboxRow |-> ImportChanges,
   createRule |-> ImportChanges \cup {<<"feoh", "import", "rules">>},
   updateRule |-> ImportChanges \cup {<<"feoh", "import", "rules">>},
   deleteRule |-> {<<"feoh", "import", "rules">>},
   upsertAccountMapping |-> ImportChanges \cup {<<"feoh", "import", "accounts">>},
   deleteAccountMapping |-> {<<"feoh", "import", "accounts">>}]

EthelInvalidates ==
  LET ethel  == {<<"ethel">>}
      detail == {<<"ethel">>, <<"ethel", "asset">>}
      places == {<<"ethel">>, <<"ethel", "places">>}
  IN [createAsset |-> ethel, updateAsset |-> ethel, deleteAsset |-> ethel,
      decommissionAsset |-> ethel \cup {<<"itemCosts">>},
      upsertVehicle |-> detail, deleteVehicle |-> detail,
      upsertFacility |-> detail, deleteFacility |-> detail,
      createPlace |-> places, updatePlace |-> places, deletePlace |-> places]

WeorcInvalidates ==
  LET routines == {<<"weorc", "routines">>}
  IN [completeOccurrence |-> routines, skipOccurrenceOfRoutine |-> routines,
      createRoutine |-> routines, updateRoutine |-> routines]

MealsInvalidates ==
  [createRecipe |-> {<<"recipes">>}, updateRecipe |-> {<<"recipes">>}, deleteRecipe |-> {<<"recipes">>},
   upsertPlanEntry |-> {<<"mealPlan">>}, deletePlanEntry |-> {<<"mealPlan">>},
   generateShoppingList |-> {<<"shoppingList">>}, addShoppingItem |-> {<<"shoppingList">>},
   updateShoppingItem |-> {<<"shoppingList">>}, removeShoppingItem |-> {<<"shoppingList">>}]

TasksInvalidates ==
  LET picker == {<<"tasks", "lists">>, <<"tasks", "allowlist">>}
  IN [completeTask |-> {<<"tasks">>}, createTask |-> {<<"tasks">>},
      setAllowlist |-> picker \cup {<<"tasks">>}, setHouseholdList |-> picker]

CalendarInvalidates ==
  LET events == {<<"events">>}
  IN [createEvent |-> events, updateEvent |-> events, moveEvent |-> events, deleteEvent |-> events]

CalendarSelectionInvalidates ==
  [setCalendarAllowlist |-> {<<"calendar", "calendars">>},
   setHouseholdCalendar |-> {<<"calendar", "calendars">>}]

HouseholdInvalidates ==
  LET members == {<<"members">>}
  IN [createMember |-> members, updateMember |-> members, setMemberRole |-> members,
      deleteMember |-> members, updateHousehold |-> {<<"household">>}]

KeysInvalidates ==
  LET both == {<<"apiKeys">>, <<"householdKeys">>}
  IN [createApiKey |-> both, revokeApiKey |-> both, revokeHouseholdKey |-> both]

LibraryInvalidates ==
  LET all == {<<"library", "connections">>, <<"library", "items">>}
  IN [createLibraryThing |-> {<<"library", "connections">>},
      pollTraktDevice |-> {<<"library", "connections">>},
      syncConnection |-> all, deleteConnection |-> all, importFile |-> all]

GewritInvalidates ==
  LET gewrit == {<<"gewrit">>}
  IN [createLink |-> gewrit, updateLink |-> gewrit, deleteLink |-> gewrit]

DisconnectInvalidates == [disconnect |-> {<<"integrations", "status">>}]

SyncNowInvalidates == [syncNow |-> {<<"integrations", "status">>}]

Invalidates ==
  FeohInvalidates @@ ImportInvalidates @@ EthelInvalidates @@ WeorcInvalidates @@ MealsInvalidates
  @@ TasksInvalidates @@ CalendarInvalidates @@ CalendarSelectionInvalidates @@ HouseholdInvalidates
  @@ KeysInvalidates @@ LibraryInvalidates @@ GewritInvalidates @@ DisconnectInvalidates
  @@ SyncNowInvalidates
-----------------------------------------------------------------------------
Touches(m, v) == Writes[m] \cap Reads[v] # {}

\* Seeded fault: a key invalidates only itself, not the keys under it.
ExactKeyOnly(m, v) == v \in Invalidates[m]

(* A key stands for every key it is a prefix of. *)
Covers(m, v) == \E k \in Invalidates[m] : IsPrefix(k, v)

(* The mutations that change what a view shows and do not refresh it, for which the *)
(* page keeps showing the old data until the stale time: the gaps of the hooks.     *)
LeftOut(v) ==
  CASE v = <<"summary">>                    -> {"createEnvelope"}
    [] v = <<"ledger">>                     -> {"recordTransaction", "importCsv"}
    [] v = <<"occurrences">>                -> {"createBill", "deleteBill"}
    [] v = <<"itemCosts">>                  -> {"createBill", "deleteBill", "linkOccurrence",
                                                "unlinkOccurrence", "updateAsset"}
    [] v = <<"weorc", "routines">>          -> {"deleteAsset", "deletePlace", "deleteMember"}
    [] v = <<"weorc", "routineHistory">>    -> {"completeOccurrence", "skipOccurrenceOfRoutine"}
    [] v = <<"mealPlan", "week">>           -> {"updateRecipe", "deleteRecipe", "deleteMember"}
    [] v = <<"tasks", "open">>              -> {"completeOccurrence", "skipOccurrenceOfRoutine", "syncNow",
                                                "deleteMember"}
    [] v = <<"tasks", "lists">>             -> {"disconnect"}
    [] v = <<"events", "range">>            -> {"setCalendarAllowlist", "syncNow", "deleteMember"}
    [] v = <<"calendar", "calendars">>      -> {"disconnect"}
    [] v = <<"whoami">>                     -> {"updateMember", "setMemberRole"}
    [] v = <<"householdKeys">>              -> {"deleteMember"}
    [] v = <<"library", "connections">>     -> {"deleteMember"}
    [] v = <<"library", "items">>           -> {"deleteMember"}
    [] v = <<"integrations", "status">>     -> {"setAllowlist", "setHouseholdList", "setCalendarAllowlist",
                                                "setHouseholdCalendar", "deleteMember"}
    [] v = <<"integrations", "feedStatus">> -> {"setAllowlist", "setCalendarAllowlist", "syncNow"}
    [] OTHER                                -> {}

GapsKnown(v) == \A m \in DOMAIN Writes : m \in LeftOut(v) <=> Touches(m, v) /\ ~Covers(m, v)
=============================================================================
