---------------------------- MODULE HelixSurface ---------------------------
(***************************************************************************)
(* The generated Helix endpoints (helix_generated.rs): for each one the    *)
(* kind of token prepare() insists on, the scopes missing_scopes() looks   *)
(* for, whether it is marked as paged, and what its reply is: the status   *)
(* its parser expects, where the cursor of the next page is, and whether   *)
(* the field list the types were generated from lets a typed field be null.*)
(* Descriptions, paths and the other fields are left out: every field is   *)
(* serde(default), so it may be missing and may not be null.               *)
(***************************************************************************)

Endpoint(id, auth, scopes, paged, reply) ==
    [id |-> id, auth |-> auth, scopes |-> scopes, paged |-> paged, reply |-> reply]

\* cursor: "none"; "reply", in the pagination object of the reply; "data",
\* in one inside data; "text", the pagination field is the cursor itself.
\* typed: "yes"; "empty", the body is not read; "no", there is no parser.
Body(status) ==
    [status |-> status, cursor |-> "none", nulls |-> FALSE, typed |-> "yes"]
Pages(place) == [Body(200) EXCEPT !.cursor = place]
Nullable(reply) == [reply EXCEPT !.nulls = TRUE]
NoBody == [Body(204) EXCEPT !.typed = "empty"]
Untyped == [Body(200) EXCEPT !.typed = "no"]

\* The calendar is text, not JSON.
Calendar == [Untyped EXCEPT !.typed = "text"]

----------------------------------------------------------------------------
\* Ads
AdsStartCommercial ==
    Endpoint("ads_start_commercial", "Either",
        {"channel:edit:commercial"}, TRUE, Body(200))
AdsGetAdSchedule ==
    Endpoint("ads_get_ad_schedule", "Either",
        {"channel:read:ads"}, TRUE, Body(200))
AdsSnoozeNextAd ==
    Endpoint("ads_snooze_next_ad", "Either",
        {"channel:manage:ads"}, TRUE, Body(200))
AdsGroup ==
    {AdsStartCommercial, AdsGetAdSchedule, AdsSnoozeNextAd}
----------------------------------------------------------------------------
\* Analytics
AnalyticsGetExtensionAnalytics ==
    Endpoint("analytics_get_extension_analytics", "User",
        {"analytics:read:extensions"}, TRUE, Pages("reply"))
AnalyticsGetGameAnalytics ==
    Endpoint("analytics_get_game_analytics", "User",
        {"analytics:read:games"}, TRUE, Pages("reply"))
AnalyticsGroup ==
    {AnalyticsGetExtensionAnalytics, AnalyticsGetGameAnalytics}
----------------------------------------------------------------------------
\* Bits
BitsGetBitsLeaderboard ==
    Endpoint("bits_get_bits_leaderboard", "User",
        {"bits:read"}, TRUE, Body(200))
BitsGetCheermotes ==
    Endpoint("bits_get_cheermotes", "Either", {}, FALSE, Body(200))
BitsGetCustomPowerUp ==
    Endpoint("bits_get_custom_power_up", "User",
        {"bits:read"}, FALSE, Nullable(Body(200)))
BitsGetExtensionTransactions ==
    Endpoint("bits_get_extension_transactions", "App",
        {}, TRUE, Pages("reply"))
BitsGroup ==
    {BitsGetBitsLeaderboard, BitsGetCheermotes, BitsGetCustomPowerUp,
     BitsGetExtensionTransactions}
----------------------------------------------------------------------------
\* Channels
ChannelsGetChannelInformation ==
    Endpoint("channels_get_channel_information", "Either",
        {}, FALSE, Body(200))
ChannelsModifyChannelInformation ==
    Endpoint("channels_modify_channel_information", "User",
        {"channel:manage:broadcast"}, TRUE, NoBody)
ChannelsGetChannelEditors ==
    Endpoint("channels_get_channel_editors", "User",
        {"channel:read:editors"}, FALSE, Body(200))
ChannelsGetFollowedChannels ==
    Endpoint("channels_get_followed_channels", "User",
        {"user:read:follows"}, TRUE, Pages("reply"))
ChannelsGetChannelFollowers ==
    Endpoint("channels_get_channel_followers", "User",
        {"moderator:read:followers"}, TRUE, Pages("reply"))
ChannelsGroup ==
    {ChannelsGetChannelInformation, ChannelsModifyChannelInformation,
     ChannelsGetChannelEditors, ChannelsGetFollowedChannels,
     ChannelsGetChannelFollowers}
----------------------------------------------------------------------------
\* Channel Points
ChannelPointsCreateCustomRewards ==
    Endpoint("channel_points_create_custom_rewards", "User",
        {"channel:manage:redemptions"}, FALSE, Nullable(Body(200)))
ChannelPointsDeleteCustomReward ==
    Endpoint("channel_points_delete_custom_reward", "User",
        {"channel:manage:redemptions"}, FALSE, NoBody)
ChannelPointsGetCustomReward ==
    Endpoint("channel_points_get_custom_reward", "User",
        {"channel:manage:redemptions", "channel:read:redemptions"},
        FALSE, Nullable(Body(200)))
ChannelPointsGetCustomRewardRedemption ==
    Endpoint("channel_points_get_custom_reward_redemption", "User",
        {"channel:manage:redemptions", "channel:read:redemptions"},
        TRUE, Pages("reply"))
ChannelPointsUpdateCustomReward ==
    Endpoint("channel_points_update_custom_reward", "User",
        {"channel:manage:redemptions"}, FALSE, Nullable(Body(200)))
ChannelPointsUpdateRedemptionStatus ==
    Endpoint("channel_points_update_redemption_status", "User",
        {"channel:manage:redemptions"}, FALSE, Body(200))
ChannelPointsGroup ==
    {ChannelPointsCreateCustomRewards, ChannelPointsDeleteCustomReward,
     ChannelPointsGetCustomReward, ChannelPointsGetCustomRewardRedemption,
     ChannelPointsUpdateCustomReward, ChannelPointsUpdateRedemptionStatus}
----------------------------------------------------------------------------
\* Charity
CharityGetCharityCampaign ==
    Endpoint("charity_get_charity_campaign", "User",
        {"channel:read:charity"}, TRUE, Nullable(Body(200)))
CharityGetCharityCampaignDonations ==
    Endpoint("charity_get_charity_campaign_donations", "User",
        {"channel:read:charity"}, TRUE, Pages("reply"))
CharityGroup ==
    {CharityGetCharityCampaign, CharityGetCharityCampaignDonations}
----------------------------------------------------------------------------
\* Chat
ChatGetChatters ==
    Endpoint("chat_get_chatters", "Either",
        {"moderator:read:chatters"}, TRUE, Pages("reply"))
ChatGetChannelEmotes ==
    Endpoint("chat_get_channel_emotes", "Either", {}, FALSE, Body(200))
ChatGetGlobalEmotes ==
    Endpoint("chat_get_global_emotes", "Either", {}, FALSE, Body(200))
ChatGetEmoteSets ==
    Endpoint("chat_get_emote_sets", "Either", {}, FALSE, Body(200))
ChatGetChannelChatBadges ==
    Endpoint("chat_get_channel_chat_badges", "Either",
        {}, FALSE, Nullable(Body(200)))
ChatGetGlobalChatBadges ==
    Endpoint("chat_get_global_chat_badges", "Either",
        {}, FALSE, Nullable(Body(200)))
ChatGetChatSettings ==
    Endpoint("chat_get_chat_settings", "Either", {}, TRUE, Nullable(Body(200)))
ChatGetSharedChatSession ==
    Endpoint("chat_get_shared_chat_session", "Either", {}, FALSE, Body(200))
ChatGetUserEmotes ==
    Endpoint("chat_get_user_emotes", "User",
        {"user:read:emotes"}, TRUE, Pages("reply"))
ChatUpdateChatSettings ==
    Endpoint("chat_update_chat_settings", "Either",
        {"moderator:manage:chat_settings"}, TRUE, Nullable(Body(200)))
ChatSendChatAnnouncement ==
    Endpoint("chat_send_chat_announcement", "Either",
        {"channel:bot", "moderator:manage:announcements", "user:bot"},
        FALSE, NoBody)
ChatSendAShoutout ==
    Endpoint("chat_send_a_shoutout", "Either",
        {"channel:bot", "moderator:manage:shoutouts", "user:bot"},
        TRUE, NoBody)
ChatSendChatMessage ==
    Endpoint("chat_send_chat_message", "Either",
        {"channel:bot", "user:bot", "user:write:chat"}, TRUE, Body(200))
ChatGetPinnedChatMessage ==
    Endpoint("chat_get_pinned_chat_message", "Either",
        {"channel:bot", "moderator:manage:chat_messages",
         "moderator:read:chat_messages", "user:bot"},
        FALSE, Body(200))
ChatPinChatMessage ==
    Endpoint("chat_pin_chat_message", "Either",
        {"channel:bot", "moderator:manage:chat_messages", "user:bot"},
        FALSE, NoBody)
ChatUpdatePinnedChatMessage ==
    Endpoint("chat_update_pinned_chat_message", "Either",
        {"channel:bot", "moderator:manage:chat_messages", "user:bot"},
        FALSE, NoBody)
ChatUnpinChatMessage ==
    Endpoint("chat_unpin_chat_message", "Either",
        {"channel:bot", "moderator:manage:chat_messages", "user:bot"},
        FALSE, NoBody)
ChatGetUserChatColor ==
    Endpoint("chat_get_user_chat_color", "Either", {}, FALSE, Body(200))
ChatUpdateUserChatColor ==
    Endpoint("chat_update_user_chat_color", "User",
        {"user:manage:chat_color"}, FALSE, NoBody)
ChatGroup ==
    {ChatGetChatters, ChatGetChannelEmotes, ChatGetGlobalEmotes,
     ChatGetEmoteSets, ChatGetChannelChatBadges, ChatGetGlobalChatBadges,
     ChatGetChatSettings, ChatGetSharedChatSession, ChatGetUserEmotes,
     ChatUpdateChatSettings, ChatSendChatAnnouncement, ChatSendAShoutout,
     ChatSendChatMessage, ChatGetPinnedChatMessage, ChatPinChatMessage,
     ChatUpdatePinnedChatMessage, ChatUnpinChatMessage, ChatGetUserChatColor,
     ChatUpdateUserChatColor}
----------------------------------------------------------------------------
\* Clips
ClipsCreateClip ==
    Endpoint("clips_create_clip", "User", {"clips:edit"}, TRUE, Body(202))
ClipsCreateClipFromVod ==
    Endpoint("clips_create_clip_from_vod", "Either",
        {"channel:manage:clips", "editor:manage:clips"}, FALSE, Body(202))
ClipsGetClips ==
    Endpoint("clips_get_clips", "Either", {}, TRUE, Nullable(Pages("reply")))
ClipsGetClipsDownload ==
    Endpoint("clips_get_clips_download", "Either",
        {"channel:manage:clips", "editor:manage:clips"},
        FALSE, Nullable(Body(200)))
ClipsGroup ==
    {ClipsCreateClip, ClipsCreateClipFromVod, ClipsGetClips,
     ClipsGetClipsDownload}
----------------------------------------------------------------------------
\* Conduits
ConduitsGetConduits ==
    Endpoint("conduits_get_conduits", "App", {}, FALSE, Body(200))
ConduitsCreateConduits ==
    Endpoint("conduits_create_conduits", "App", {}, FALSE, Body(200))
ConduitsUpdateConduits ==
    Endpoint("conduits_update_conduits", "App", {}, TRUE, Body(200))
ConduitsDeleteConduit ==
    Endpoint("conduits_delete_conduit", "App", {}, FALSE, NoBody)
ConduitsGetConduitShards ==
    Endpoint("conduits_get_conduit_shards", "App", {}, TRUE, Pages("reply"))
ConduitsUpdateConduitShards ==
    Endpoint("conduits_update_conduit_shards", "App", {}, TRUE, Body(202))
ConduitsGroup ==
    {ConduitsGetConduits, ConduitsCreateConduits, ConduitsUpdateConduits,
     ConduitsDeleteConduit, ConduitsGetConduitShards,
     ConduitsUpdateConduitShards}
----------------------------------------------------------------------------
\* CCLs
CclsGetContentClassificationLabels ==
    Endpoint("ccls_get_content_classification_labels", "Either",
        {}, FALSE, Body(200))
CclsGroup ==
    {CclsGetContentClassificationLabels}
----------------------------------------------------------------------------
\* Entitlements
EntitlementsGetDropsEntitlements ==
    Endpoint("entitlements_get_drops_entitlements", "Either",
        {}, TRUE, Pages("reply"))
EntitlementsUpdateDropsEntitlements ==
    Endpoint("entitlements_update_drops_entitlements", "Either",
        {}, FALSE, Body(200))
EntitlementsGroup ==
    {EntitlementsGetDropsEntitlements, EntitlementsUpdateDropsEntitlements}
----------------------------------------------------------------------------
\* Extensions
ExtensionsGetExtensionConfigurationSegment ==
    Endpoint("extensions_get_extension_configuration_segment", "ExtensionJwt",
        {}, FALSE, Body(200))
ExtensionsSetExtensionConfigurationSegment ==
    Endpoint("extensions_set_extension_configuration_segment", "ExtensionJwt",
        {}, FALSE, NoBody)
ExtensionsSetExtensionRequiredConfiguration ==
    Endpoint("extensions_set_extension_required_configuration", "ExtensionJwt",
        {}, TRUE, NoBody)
ExtensionsSendExtensionPubsubMessage ==
    Endpoint("extensions_send_extension_pubsub_message", "ExtensionJwt",
        {}, FALSE, NoBody)
ExtensionsGetExtensionLiveChannels ==
    Endpoint("extensions_get_extension_live_channels", "Either",
        {}, TRUE, Pages("text"))
ExtensionsGetExtensionSecrets ==
    Endpoint("extensions_get_extension_secrets", "ExtensionJwt",
        {}, FALSE, Body(200))
ExtensionsCreateExtensionSecret ==
    Endpoint("extensions_create_extension_secret", "ExtensionJwt",
        {}, FALSE, Body(200))
ExtensionsSendExtensionChatMessage ==
    Endpoint("extensions_send_extension_chat_message", "ExtensionJwt",
        {}, FALSE, NoBody)
ExtensionsGetExtensions ==
    Endpoint("extensions_get_extensions", "ExtensionJwt", {}, FALSE, Body(200))
ExtensionsGetReleasedExtensions ==
    Endpoint("extensions_get_released_extensions", "Either",
        {}, FALSE, Body(200))
ExtensionsGetExtensionBitsProducts ==
    Endpoint("extensions_get_extension_bits_products", "App",
        {}, FALSE, Body(200))
ExtensionsUpdateExtensionBitsProduct ==
    Endpoint("extensions_update_extension_bits_product", "App",
        {}, FALSE, Body(200))
ExtensionsGroup ==
    {ExtensionsGetExtensionConfigurationSegment,
     ExtensionsSetExtensionConfigurationSegment,
     ExtensionsSetExtensionRequiredConfiguration,
     ExtensionsSendExtensionPubsubMessage,
     ExtensionsGetExtensionLiveChannels, ExtensionsGetExtensionSecrets,
     ExtensionsCreateExtensionSecret, ExtensionsSendExtensionChatMessage,
     ExtensionsGetExtensions, ExtensionsGetReleasedExtensions,
     ExtensionsGetExtensionBitsProducts, ExtensionsUpdateExtensionBitsProduct}
----------------------------------------------------------------------------
\* EventSub
EventsubCreateEventsubSubscription ==
    Endpoint("eventsub_create_eventsub_subscription", "Either",
        {"channel:read:subscriptions"}, TRUE, Body(202))
EventsubDeleteEventsubSubscription ==
    Endpoint("eventsub_delete_eventsub_subscription", "Either",
        {}, FALSE, NoBody)
EventsubGetEventsubSubscriptions ==
    Endpoint("eventsub_get_eventsub_subscriptions", "Either",
        {}, TRUE, Pages("reply"))
EventsubGroup ==
    {EventsubCreateEventsubSubscription, EventsubDeleteEventsubSubscription,
     EventsubGetEventsubSubscriptions}
----------------------------------------------------------------------------
\* Games
GamesGetTopGames ==
    Endpoint("games_get_top_games", "Either", {}, TRUE, Pages("reply"))
GamesGetGames ==
    Endpoint("games_get_games", "Either", {}, FALSE, Body(200))
GamesGroup ==
    {GamesGetTopGames, GamesGetGames}
----------------------------------------------------------------------------
\* Goals
GoalsGetCreatorGoals ==
    Endpoint("goals_get_creator_goals", "User",
        {"channel:read:goals"}, TRUE, Body(200))
GoalsGroup ==
    {GoalsGetCreatorGoals}
----------------------------------------------------------------------------
\* Guest Star
GuestStarGetChannelGuestStarSettings ==
    Endpoint("guest_star_get_channel_guest_star_settings", "None",
        {"channel:manage:guest_star", "channel:read:guest_star",
         "moderator:manage:guest_star", "moderator:read:guest_star"},
        FALSE, Body(200))
GuestStarUpdateChannelGuestStarSettings ==
    Endpoint("guest_star_update_channel_guest_star_settings", "None",
        {"channel:manage:guest_star"}, FALSE, NoBody)
GuestStarGetGuestStarSession ==
    Endpoint("guest_star_get_guest_star_session", "None",
        {"channel:manage:guest_star", "channel:read:guest_star",
         "moderator:manage:guest_star", "moderator:read:guest_star"},
        FALSE, Body(200))
GuestStarCreateGuestStarSession ==
    Endpoint("guest_star_create_guest_star_session", "None",
        {"channel:manage:guest_star"}, FALSE, Body(200))
GuestStarEndGuestStarSession ==
    Endpoint("guest_star_end_guest_star_session", "None",
        {"channel:manage:guest_star"}, FALSE, Body(200))
GuestStarGetGuestStarInvites ==
    Endpoint("guest_star_get_guest_star_invites", "None",
        {"channel:manage:guest_star", "channel:read:guest_star",
         "moderator:manage:guest_star", "moderator:read:guest_star"},
        FALSE, Body(200))
GuestStarSendGuestStarInvite ==
    Endpoint("guest_star_send_guest_star_invite", "None",
        {"channel:manage:guest_star", "moderator:manage:guest_star"},
        FALSE, NoBody)
GuestStarDeleteGuestStarInvite ==
    Endpoint("guest_star_delete_guest_star_invite", "None",
        {"channel:manage:guest_star", "moderator:manage:guest_star"},
        FALSE, NoBody)
GuestStarAssignGuestStarSlot ==
    Endpoint("guest_star_assign_guest_star_slot", "None",
        {"channel:manage:guest_star", "moderator:manage:guest_star"},
        FALSE, NoBody)
GuestStarUpdateGuestStarSlot ==
    Endpoint("guest_star_update_guest_star_slot", "None",
        {"channel:manage:guest_star", "moderator:manage:guest_star"},
        FALSE, NoBody)
GuestStarDeleteGuestStarSlot ==
    Endpoint("guest_star_delete_guest_star_slot", "None",
        {"channel:manage:guest_star", "moderator:manage:guest_star"},
        FALSE, NoBody)
GuestStarUpdateGuestStarSlotSettings ==
    Endpoint("guest_star_update_guest_star_slot_settings", "None",
        {"channel:manage:guest_star", "moderator:manage:guest_star"},
        FALSE, NoBody)
GuestStarGroup ==
    {GuestStarGetChannelGuestStarSettings,
     GuestStarUpdateChannelGuestStarSettings, GuestStarGetGuestStarSession,
     GuestStarCreateGuestStarSession, GuestStarEndGuestStarSession,
     GuestStarGetGuestStarInvites, GuestStarSendGuestStarInvite,
     GuestStarDeleteGuestStarInvite, GuestStarAssignGuestStarSlot,
     GuestStarUpdateGuestStarSlot, GuestStarDeleteGuestStarSlot,
     GuestStarUpdateGuestStarSlotSettings}
----------------------------------------------------------------------------
\* Hype Train
HypeTrainGetHypeTrainStatus ==
    Endpoint("hype_train_get_hype_train_status", "User",
        {"channel:read:hype_train"}, FALSE, Untyped)
HypeTrainGroup ==
    {HypeTrainGetHypeTrainStatus}
----------------------------------------------------------------------------
\* Moderation
ModerationCheckAutomodStatus ==
    Endpoint("moderation_check_automod_status", "Either",
        {"moderation:read"}, FALSE, Body(200))
ModerationManageHeldAutomodMessages ==
    Endpoint("moderation_manage_held_automod_messages", "Either",
        {"moderator:manage:automod"}, FALSE, NoBody)
ModerationGetAutomodSettings ==
    Endpoint("moderation_get_automod_settings", "Either",
        {"moderator:manage:automod_settings",
         "moderator:read:automod_settings"},
        FALSE, Nullable(Body(200)))
ModerationUpdateAutomodSettings ==
    Endpoint("moderation_update_automod_settings", "Either",
        {"moderator:manage:automod_settings"}, TRUE, Nullable(Body(200)))
ModerationGetBannedUsers ==
    Endpoint("moderation_get_banned_users", "Either",
        {"moderation:read", "moderator:manage:banned_users"},
        TRUE, Pages("reply"))
ModerationBanUser ==
    Endpoint("moderation_ban_user", "Either",
        {"moderator:manage:banned_users", "user:bot"},
        FALSE, Nullable(Body(200)))
ModerationUnbanUser ==
    Endpoint("moderation_unban_user", "Either",
        {"moderator:manage:banned_users", "user:bot"}, FALSE, NoBody)
ModerationGetUnbanRequests ==
    Endpoint("moderation_get_unban_requests", "User",
        {"moderator:manage:unban_requests", "moderator:read:unban_requests"},
        TRUE, Pages("reply"))
ModerationResolveUnbanRequests ==
    Endpoint("moderation_resolve_unban_requests", "User",
        {"moderator:manage:unban_requests"}, TRUE, Body(200))
ModerationGetBlockedTerms ==
    Endpoint("moderation_get_blocked_terms", "Either",
        {"moderator:manage:blocked_terms", "moderator:read:blocked_terms"},
        TRUE, Nullable(Pages("reply")))
ModerationAddBlockedTerm ==
    Endpoint("moderation_add_blocked_term", "Either",
        {"moderator:manage:blocked_terms"}, TRUE, Nullable(Body(200)))
ModerationRemoveBlockedTerm ==
    Endpoint("moderation_remove_blocked_term", "Either",
        {"moderator:manage:blocked_terms"}, FALSE, NoBody)
ModerationDeleteChatMessages ==
    Endpoint("moderation_delete_chat_messages", "Either",
        {"moderator:manage:chat_messages"}, FALSE, NoBody)
ModerationGetModeratedChannels ==
    Endpoint("moderation_get_moderated_channels", "Either",
        {"user:read:moderated_channels"}, TRUE, Pages("reply"))
ModerationGetModerators ==
    Endpoint("moderation_get_moderators", "User",
        {"channel:manage:moderators", "moderation:read"}, TRUE, Pages("reply"))
ModerationAddChannelModerator ==
    Endpoint("moderation_add_channel_moderator", "User",
        {"channel:manage:moderators"}, FALSE, NoBody)
ModerationRemoveChannelModerator ==
    Endpoint("moderation_remove_channel_moderator", "User",
        {"channel:manage:moderators"}, FALSE, NoBody)
ModerationGetVips ==
    Endpoint("moderation_get_vips", "User",
        {"channel:manage:vips", "channel:read:vips"}, TRUE, Pages("reply"))
ModerationAddChannelVip ==
    Endpoint("moderation_add_channel_vip", "User",
        {"channel:manage:vips"}, TRUE, NoBody)
ModerationRemoveChannelVip ==
    Endpoint("moderation_remove_channel_vip", "User",
        {"channel:manage:vips"}, FALSE, NoBody)
ModerationUpdateShieldModeStatus ==
    Endpoint("moderation_update_shield_mode_status", "Either",
        {"moderator:manage:shield_mode"}, FALSE, Body(200))
ModerationGetShieldModeStatus ==
    Endpoint("moderation_get_shield_mode_status", "Either",
        {"moderator:manage:shield_mode", "moderator:read:shield_mode"},
        FALSE, Body(200))
ModerationWarnChatUser ==
    Endpoint("moderation_warn_chat_user", "Either",
        {"moderator:manage:warnings"}, FALSE, Body(200))
ModerationAddSuspiciousStatusToChatUser ==
    Endpoint("moderation_add_suspicious_status_to_chat_user", "Either",
        {"moderator:manage:suspicious_users"}, FALSE, Body(200))
ModerationRemoveSuspiciousStatusFromChatUser ==
    Endpoint("moderation_remove_suspicious_status_from_chat_user", "Either",
        {"moderator:manage:suspicious_users"}, FALSE, Body(200))
ModerationGroup ==
    {ModerationCheckAutomodStatus, ModerationManageHeldAutomodMessages,
     ModerationGetAutomodSettings, ModerationUpdateAutomodSettings,
     ModerationGetBannedUsers, ModerationBanUser, ModerationUnbanUser,
     ModerationGetUnbanRequests, ModerationResolveUnbanRequests,
     ModerationGetBlockedTerms, ModerationAddBlockedTerm,
     ModerationRemoveBlockedTerm, ModerationDeleteChatMessages,
     ModerationGetModeratedChannels, ModerationGetModerators,
     ModerationAddChannelModerator, ModerationRemoveChannelModerator,
     ModerationGetVips, ModerationAddChannelVip, ModerationRemoveChannelVip,
     ModerationUpdateShieldModeStatus, ModerationGetShieldModeStatus,
     ModerationWarnChatUser, ModerationAddSuspiciousStatusToChatUser,
     ModerationRemoveSuspiciousStatusFromChatUser}
----------------------------------------------------------------------------
\* Polls
PollsGetPolls ==
    Endpoint("polls_get_polls", "User",
        {"channel:manage:polls", "channel:read:polls"},
        TRUE, Nullable(Pages("reply")))
PollsCreatePoll ==
    Endpoint("polls_create_poll", "User",
        {"channel:manage:polls"}, TRUE, Nullable(Body(200)))
PollsEndPoll ==
    Endpoint("polls_end_poll", "User",
        {"channel:manage:polls"}, TRUE, Nullable(Body(200)))
PollsGroup ==
    {PollsGetPolls, PollsCreatePoll, PollsEndPoll}
----------------------------------------------------------------------------
\* Predictions
PredictionsGetPredictions ==
    Endpoint("predictions_get_predictions", "User",
        {"channel:manage:predictions", "channel:read:predictions"},
        TRUE, Nullable(Pages("reply")))
PredictionsCreatePrediction ==
    Endpoint("predictions_create_prediction", "User",
        {"channel:manage:predictions"}, FALSE, Nullable(Body(200)))
PredictionsEndPrediction ==
    Endpoint("predictions_end_prediction", "User",
        {"channel:manage:predictions"}, TRUE, Nullable(Body(200)))
PredictionsGroup ==
    {PredictionsGetPredictions, PredictionsCreatePrediction,
     PredictionsEndPrediction}
----------------------------------------------------------------------------
\* Raids
RaidsStartARaid ==
    Endpoint("raids_start_a_raid", "User",
        {"channel:manage:raids"}, TRUE, Body(200))
RaidsCancelARaid ==
    Endpoint("raids_cancel_a_raid", "User",
        {"channel:manage:raids"}, FALSE, NoBody)
RaidsGroup ==
    {RaidsStartARaid, RaidsCancelARaid}
----------------------------------------------------------------------------
\* Schedule
ScheduleGetChannelStreamSchedule ==
    Endpoint("schedule_get_channel_stream_schedule", "Either",
        {}, TRUE, Nullable(Pages("data")))
ScheduleGetChannelIcalendar ==
    Endpoint("schedule_get_channel_icalendar", "Custom", {}, FALSE, Calendar)
ScheduleUpdateChannelStreamSchedule ==
    Endpoint("schedule_update_channel_stream_schedule", "User",
        {"channel:manage:schedule"}, FALSE, NoBody)
ScheduleCreateChannelStreamScheduleSegment ==
    Endpoint("schedule_create_channel_stream_schedule_segment", "User",
        {"channel:manage:schedule"}, FALSE, Nullable(Body(200)))
ScheduleUpdateChannelStreamScheduleSegment ==
    Endpoint("schedule_update_channel_stream_schedule_segment", "User",
        {"channel:manage:schedule"}, TRUE, Nullable(Body(200)))
ScheduleDeleteChannelStreamScheduleSegment ==
    Endpoint("schedule_delete_channel_stream_schedule_segment", "User",
        {"channel:manage:schedule"}, FALSE, NoBody)
ScheduleGroup ==
    {ScheduleGetChannelStreamSchedule, ScheduleGetChannelIcalendar,
     ScheduleUpdateChannelStreamSchedule,
     ScheduleCreateChannelStreamScheduleSegment,
     ScheduleUpdateChannelStreamScheduleSegment,
     ScheduleDeleteChannelStreamScheduleSegment}
----------------------------------------------------------------------------
\* Search
SearchSearchCategories ==
    Endpoint("search_search_categories", "Either", {}, TRUE, Pages("reply"))
SearchSearchChannels ==
    Endpoint("search_search_channels", "Either", {}, TRUE, Pages("reply"))
SearchGroup ==
    {SearchSearchCategories, SearchSearchChannels}
----------------------------------------------------------------------------
\* Streams
StreamsGetStreamKey ==
    Endpoint("streams_get_stream_key", "User",
        {"channel:read:stream_key"}, FALSE, Body(200))
StreamsGetStreams ==
    Endpoint("streams_get_streams", "Either", {}, TRUE, Pages("reply"))
StreamsGetFollowedStreams ==
    Endpoint("streams_get_followed_streams", "User",
        {"user:read:follows"}, TRUE, Pages("reply"))
StreamsCreateStreamMarker ==
    Endpoint("streams_create_stream_marker", "User",
        {"channel:manage:broadcast"}, FALSE, Body(200))
StreamsGetStreamMarkers ==
    Endpoint("streams_get_stream_markers", "User",
        {"channel:manage:broadcast", "user:read:broadcast"},
        TRUE, Pages("reply"))
StreamsGroup ==
    {StreamsGetStreamKey, StreamsGetStreams, StreamsGetFollowedStreams,
     StreamsCreateStreamMarker, StreamsGetStreamMarkers}
----------------------------------------------------------------------------
\* Subscriptions
SubscriptionsGetBroadcasterSubscriptions ==
    Endpoint("subscriptions_get_broadcaster_subscriptions", "Either",
        {"channel:read:subscriptions"}, TRUE, Nullable(Pages("reply")))
SubscriptionsCheckUserSubscription ==
    Endpoint("subscriptions_check_user_subscription", "User",
        {"user:read:subscriptions"}, FALSE, Body(200))
SubscriptionsGroup ==
    {SubscriptionsGetBroadcasterSubscriptions,
     SubscriptionsCheckUserSubscription}
----------------------------------------------------------------------------
\* Tags
TagsGetAllStreamTags ==
    Endpoint("tags_get_all_stream_tags", "Either", {}, TRUE, Pages("reply"))
TagsGetStreamTags ==
    Endpoint("tags_get_stream_tags", "Either", {}, FALSE, Body(200))
TagsGroup ==
    {TagsGetAllStreamTags, TagsGetStreamTags}
----------------------------------------------------------------------------
\* Teams
TeamsGetChannelTeams ==
    Endpoint("teams_get_channel_teams", "Either",
        {}, FALSE, Nullable(Body(200)))
TeamsGetTeams ==
    Endpoint("teams_get_teams", "Either", {}, FALSE, Nullable(Body(200)))
TeamsGroup ==
    {TeamsGetChannelTeams, TeamsGetTeams}
----------------------------------------------------------------------------
\* Users
UsersGetUsers ==
    Endpoint("users_get_users", "Either", {}, FALSE, Body(200))
UsersUpdateUser ==
    Endpoint("users_update_user", "User", {"user:edit"}, FALSE, Body(200))
UsersGetAuthorizationByUser ==
    Endpoint("users_get_authorization_by_user", "App", {}, FALSE, Body(200))
UsersGetUserBlockList ==
    Endpoint("users_get_user_block_list", "User",
        {"user:read:blocked_users"}, TRUE, Pages("reply"))
UsersBlockUser ==
    Endpoint("users_block_user", "User",
        {"user:manage:blocked_users"}, FALSE, NoBody)
UsersUnblockUser ==
    Endpoint("users_unblock_user", "User",
        {"user:manage:blocked_users"}, FALSE, NoBody)
UsersGetUserExtensions ==
    Endpoint("users_get_user_extensions", "User",
        {"user:edit:broadcast", "user:read:broadcast"}, FALSE, Body(200))
UsersGetUserActiveExtensions ==
    Endpoint("users_get_user_active_extensions", "Either",
        {}, FALSE, Body(200))
UsersUpdateUserExtensions ==
    Endpoint("users_update_user_extensions", "User",
        {"user:edit:broadcast"}, FALSE, Body(200))
UsersGroup ==
    {UsersGetUsers, UsersUpdateUser, UsersGetAuthorizationByUser,
     UsersGetUserBlockList, UsersBlockUser, UsersUnblockUser,
     UsersGetUserExtensions, UsersGetUserActiveExtensions,
     UsersUpdateUserExtensions}
----------------------------------------------------------------------------
\* Videos
VideosGetVideos ==
    Endpoint("videos_get_videos", "Either", {}, TRUE, Nullable(Pages("reply")))
VideosDeleteVideos ==
    Endpoint("videos_delete_videos", "User",
        {"channel:manage:videos"}, FALSE, Body(200))
VideosGroup ==
    {VideosGetVideos, VideosDeleteVideos}
----------------------------------------------------------------------------
\* Whispers
WhispersSendWhisper ==
    Endpoint("whispers_send_whisper", "User",
        {"user:manage:whispers"}, FALSE, NoBody)
WhispersGroup ==
    {WhispersSendWhisper}
----------------------------------------------------------------------------
AllEndpoints == UNION {
    AdsGroup, AnalyticsGroup, BitsGroup, ChannelsGroup, ChannelPointsGroup,
    CharityGroup, ChatGroup, ClipsGroup, ConduitsGroup, CclsGroup,
    EntitlementsGroup, ExtensionsGroup, EventsubGroup, GamesGroup,
    GoalsGroup, GuestStarGroup, HypeTrainGroup, ModerationGroup, PollsGroup,
    PredictionsGroup, RaidsGroup, ScheduleGroup, SearchGroup, StreamsGroup,
    SubscriptionsGroup, TagsGroup, TeamsGroup, UsersGroup, VideosGroup,
    WhispersGroup}
============================================================================
