----------------------------- MODULE FormSections ----------------------------
(* The sections of the Settings and Profile pages, as data: the record of      *)
(* types/mocked.ts, the zod schema of its form, the controls of its card, what *)
(* the card sends and what the handler carries over from the stored section.   *)
(* A numeric field is a pair of bounds (a probability or a temperature in      *)
(* hundredths), any other field is Free.  Labels, option lists, masking,       *)
(* layout and updated_at, which every save stamps, are left out.               *)
EXTENDS Integers, TLC

Free == <<>>
FreeFields(fields) == [f \in fields |-> Free]
Card(record, schema, controls, sends, keeps, page) ==
  [record |-> record, schema |-> schema, controls |-> controls, sends |-> sends,
   keeps |-> keeps, page |-> page]

-----------------------------------------------------------------------------
(* types/mocked.ts *)
GeneralSettings == {"organization_name", "organization_slug", "time_zone", "default_language"}
AiModelSettings == {"default_llm", "temperature", "max_tokens", "embedding_model",
                    "tool_timeout_seconds"}
MemorySettings == {"memory_enabled", "memory_retention_days", "similarity_threshold",
                   "max_memories", "auto_cleanup"}
SecuritySettings == {"api_keys", "session_timeout_minutes", "mfa_enabled", "ip_allow_list",
                     "audit_logging_enabled"}
NotificationSettings == {"email_alerts", "slack_notifications", "failure_alerts",
                         "weekly_reports"}
AppearanceSettings == {"theme", "density", "date_format", "number_format"}
ProfilePreferences == {"theme", "language", "timezone"}
ProfileResponse == {"name", "email", "avatar_url", "role", "organization", "api_key_last4",
                    "preferences", "security", "recent_activity"}

(* features/settings/schema.ts and features/profile/schema.ts *)
generalSettingsSchema == FreeFields(GeneralSettings)
aiModelSettingsSchema ==
  FreeFields({"default_llm", "embedding_model"}) @@
  [temperature |-> <<0, 200>>, max_tokens |-> <<1, 128000>>, tool_timeout_seconds |-> <<1, 300>>]
memorySettingsSchema ==
  FreeFields({"memory_enabled", "auto_cleanup"}) @@
  [memory_retention_days |-> <<1, 3650>>, similarity_threshold |-> <<0, 100>>,
   max_memories |-> <<1, 100000>>]
securitySettingsSchema ==
  FreeFields({"mfa_enabled", "ip_allow_list", "audit_logging_enabled"}) @@
  [session_timeout_minutes |-> <<5, 1440>>]
notificationSettingsSchema == FreeFields(NotificationSettings)
appearanceSettingsSchema == FreeFields(AppearanceSettings)
profileInfoSchema == FreeFields({"name", "email", "avatar_url"})
preferencesSchema == FreeFields(ProfilePreferences)

(* The controls of each card (features/settings/components and                 *)
(* features/profile/components): the field each one edits, the range it offers. *)
TextField(f) == f :> Free
SelectField(f) == f :> Free
ToggleField(f) == f :> Free
NumberField(f, min, max) == f :> <<min, max>>
SliderField(f, min, max) == f :> <<min, max>>

GeneralSettingsCard ==
  Card(GeneralSettings, generalSettingsSchema,
       TextField("organization_name") @@ TextField("organization_slug") @@
       SelectField("time_zone") @@ SelectField("default_language"),
       GeneralSettings, {}, "settings")
AiModelsSettingsCard ==
  Card(AiModelSettings, aiModelSettingsSchema,
       SelectField("default_llm") @@ SliderField("temperature", 0, 200) @@
       NumberField("max_tokens", 1, 128000) @@ SelectField("embedding_model") @@
       NumberField("tool_timeout_seconds", 1, 300),
       AiModelSettings, {}, "settings")
MemorySettingsCard ==
  Card(MemorySettings, memorySettingsSchema,
       ToggleField("memory_enabled") @@ NumberField("memory_retention_days", 1, 3650) @@
       SliderField("similarity_threshold", 0, 100) @@ NumberField("max_memories", 1, 100000) @@
       ToggleField("auto_cleanup"),
       MemorySettings, {}, "settings")
SecuritySettingsCard ==
  Card(SecuritySettings, securitySettingsSchema,
       NumberField("session_timeout_minutes", 5, 1440) @@ ToggleField("mfa_enabled") @@
       TextField("ip_allow_list") @@ ToggleField("audit_logging_enabled"),
       SecuritySettings \ {"api_keys"}, {"api_keys"}, "settings")
NotificationsSettingsCard ==
  Card(NotificationSettings, notificationSettingsSchema,
       ToggleField("email_alerts") @@ ToggleField("slack_notifications") @@
       ToggleField("failure_alerts") @@ ToggleField("weekly_reports"),
       NotificationSettings, {}, "settings")
AppearanceSettingsCard ==
  Card(AppearanceSettings, appearanceSettingsSchema,
       SelectField("theme") @@ SelectField("density") @@ SelectField("date_format") @@
       SelectField("number_format"),
       AppearanceSettings, {}, "settings")
\* The info section is the profile itself: the handler spreads what is sent over it.
ProfileInfoCard ==
  Card(ProfileResponse \ {"preferences"}, profileInfoSchema,
       TextField("name") @@ TextField("email") @@ TextField("avatar_url"),
       {"name", "email", "avatar_url"},
       ProfileResponse \ {"name", "email", "avatar_url", "preferences"}, "profile")
PreferencesCard ==
  Card(ProfilePreferences, preferencesSchema,
       SelectField("theme") @@ SelectField("language") @@ SelectField("timezone"),
       ProfilePreferences, {}, "profile")

CardOf ==
  [general |-> GeneralSettingsCard, ai_models |-> AiModelsSettingsCard,
   memory |-> MemorySettingsCard, security |-> SecuritySettingsCard,
   notifications |-> NotificationsSettingsCard, appearance |-> AppearanceSettingsCard,
   info |-> ProfileInfoCard, preferences |-> PreferencesCard]
SectionsOf(page) == {s \in DOMAIN CardOf : CardOf[s].page = page}
SETTINGS_NAV_ITEMS == SectionsOf("settings")
Carried(s) == CardOf[s].record \ CardOf[s].sends  \* fields a save of s does not send

-----------------------------------------------------------------------------
(* Every field a card sends has a control that offers exactly what its schema  *)
(* accepts, and the handler carries over every field the card does not send.   *)
CardsFitRecords ==
  \A s \in DOMAIN CardOf :
    /\ CardOf[s].controls = CardOf[s].schema
    /\ CardOf[s].sends = DOMAIN CardOf[s].schema
    /\ CardOf[s].sends \subseteq CardOf[s].record
    /\ CardOf[s].keeps = Carried(s)
=============================================================================
