-------------------------------- MODULE Routes --------------------------------
(***************************************************************************)
(* The REST routes of the controllers: which need a signed-in member, and  *)
(* what standing the use-case behind each one asks of that member.         *)
(*                                                                         *)
(* A need is a set of standings, any one of which is enough.  MEMBER is    *)
(* everybody who is signed in; OWNER is who wrote, filed or is the subject *)
(* of the document in question.  STAFF and SHELTER_ADMIN are of the        *)
(* shelter the request names, and an OPERATOR has both; SOME_SHELTER is a  *)
(* grant at any shelter.                                                   *)
(***************************************************************************)
EXTENDS Functions

Standing == {"MEMBER", "OWNER", "ACTIVE", "STAFF", "SHELTER_ADMIN", "SOME_SHELTER",
             "OPERATOR"}

Member == {"MEMBER"}
Owner == {"OWNER"}
Active == {"ACTIVE"}
Staff == {"STAFF"}
ShelterAdmin == {"SHELTER_ADMIN"}
Operator == {"OPERATOR"}
OwnerOrStaff == {"OWNER", "STAFF"}
OwnerOrOperator == {"OWNER", "OPERATOR"}
StaffOrOperator == {"STAFF", "OPERATOR"}

\* A handler that is marked @Public, or has no guard.
Open == [signed |-> FALSE, need |-> Member]

\* A handler behind JwtAuthGuard.
Signed(need) == [signed |-> TRUE, need |-> need]

-----------------------------------------------------------------------------
\* Use-cases that change no state of the other modules: whom each answers.

GetAdoptionApplication == OwnerOrStaff
GetFosterApplication == OwnerOrStaff
ListConversationMessages == OwnerOrStaff

\* Signed-in members about themselves, or about what is public to members.
ListMyConsents == Member
GetShelterStats == Member
ReadVolunteerEvents == Member
CreateUploadUrl == Member

\* The shelter is found first, or the event and with it its shelter.
RegisterAnimal == Staff
GetShelterProfile == Staff
GetShelterStaff == Staff
ListStaffPromotions == Staff
ListEventSignups == Staff

GetShelterVerification == Operator
CountPendingApprovals == Operator
ListPolicyVersions == Operator
ListPendingReports == Operator
GetErasureRequest == Operator
ListSubjectErasures == Operator

\* Every export leaves a row in the audit log.
ExportPersonalData == Operator

-----------------------------------------------------------------------------
\* One table for each controller, one field for each handler.

AdopterHistoryController ==
    [get |-> Signed({"OPERATOR", "SOME_SHELTER"})]

AdoptionController ==
    [submit         |-> Signed(Active),
     return         |-> Signed(Staff),
     decide         |-> Signed(Staff),
     listForShelter |-> Signed(Staff),
     listMine       |-> Signed(Member),
     getOne         |-> Signed(GetAdoptionApplication)]

AnimalController ==
    [register      |-> Signed(RegisterAnimal),
     update        |-> Signed(Staff),
     search        |-> Signed(Member),
     getOne        |-> Signed(Member),
     listByShelter |-> Signed(Member),
     relist        |-> Signed(Staff),
     blind         |-> Signed(Operator),
     unblind       |-> Signed(Operator)]

ShelterStatsController == [stats |-> Signed(GetShelterStats)]

AnnouncementController ==
    [post   |-> Signed(Staff),
     list   |-> Signed(Member),
     edit   |-> Signed(Staff),
     remove |-> Signed(StaffOrOperator)]

\* A decision asks what its type asks: a staff promotion its shelter's staff, a
\* verification an operator.
ApprovalController ==
    [listPending        |-> Signed(Operator),
     countPending       |-> Signed(CountPendingApprovals),
     decidePromotion    |-> Signed(Staff),
     decideVerification |-> Signed(Operator)]

AuthController ==
    [signup |-> Open, login |-> Open, refresh |-> Open, logout |-> Open]

ConsentController ==
    [grant    |-> Signed(Member),
     withdraw |-> Signed(Member),
     list     |-> Signed(ListMyConsents)]

DsarController ==
    [export        |-> Signed(ExportPersonalData),
     listBySubject |-> Signed(ListSubjectErasures),
     get           |-> Signed(GetErasureRequest)]

FaqController ==
    [post   |-> Signed(Staff),
     list   |-> Signed(Member),
     edit   |-> Signed(Staff),
     remove |-> Signed(StaffOrOperator)]

FavoriteController ==
    [add |-> Signed(Member), remove |-> Signed(Member), list |-> Signed(Member)]

\* Either side may end a foster placement.
FosterController ==
    [submit            |-> Signed(Active),
     decide            |-> Signed(Staff),
     terminate         |-> Signed(OwnerOrStaff),
     convertToAdoption |-> Signed(Staff),
     listForShelter    |-> Signed(Staff),
     listMine          |-> Signed(Member),
     getOne            |-> Signed(GetFosterApplication)]

HealthController == [check |-> Open, live |-> Open, ready |-> Open]

InquiryController ==
    [start          |-> Signed(Active),
     listMine       |-> Signed(Member),
     listForShelter |-> Signed(Staff)]

MediaController == [createUploadUrl |-> Signed(CreateUploadUrl)]

MessageController ==
    [post |-> Signed(OwnerOrStaff), list |-> Signed(ListConversationMessages)]

NotificationController ==
    [list        |-> Signed(Member),
     unreadCount |-> Signed(Member),
     markAllRead |-> Signed(Member),
     markRead    |-> Signed(Owner)]

AdminPolicyController ==
    [publish |-> Signed(Operator), versions |-> Signed(ListPolicyVersions)]

PolicyController == [current |-> Open]

QuestionnaireController == [define |-> Signed(ShelterAdmin), get |-> Signed(Member)]

ReportController ==
    [submit  |-> Signed(Active),
     pending |-> Signed(ListPendingReports),
     resolve |-> Signed(Operator)]

ReviewController ==
    [submit     |-> Signed(Owner),
     list       |-> Signed(Member),
     reputation |-> Signed(Member),
     revise     |-> Signed(Owner),
     remove     |-> Signed(OwnerOrOperator)]

AdminStatsController == [stats |-> Signed(Operator)]

ShelterDashboardController == [dashboard |-> Signed(Staff)]

ShelterController ==
    [register              |-> Signed(Member),
     requestStaffPromotion |-> Signed(ShelterAdmin),
     listStaffPromotions   |-> Signed(ListStaffPromotions),
     editProfile           |-> Signed(Staff),
     list                  |-> Open,
     map                   |-> Open,
     listStaff             |-> Signed(GetShelterStaff)]

ShelterControllerDetail ==
    [removeStaff     |-> Signed(ShelterAdmin),
     getVerification |-> Signed(GetShelterVerification),
     getProfile      |-> Signed(GetShelterProfile),
     getBySlug       |-> Open]

\* The member's own document refuses a rename or a withdrawal unless active.
UserController ==
    [me             |-> Signed(Member),
     changeNickname |-> Signed(Active),
     withdraw       |-> Signed(Active),
     sanction       |-> Signed(Operator),
     reinstate      |-> Signed(Operator),
     publicProfile  |-> Signed(Member)]

MyBookmarksController == [list |-> Signed(Member)]

VolunteerPostController ==
    [create |-> Signed(Active),
     feed   |-> Signed(Member),
     getOne |-> Signed(Member),
     like   |-> Signed(Member),
     unlike |-> Signed(Member)]

VolunteerPostControllerDetail ==
    [comment       |-> Signed(Active),
     comments      |-> Signed(Member),
     deleteComment |-> Signed(OwnerOrOperator),
     bookmark      |-> Signed(Member),
     unbookmark    |-> Signed(Member),
     remove        |-> Signed(OwnerOrOperator)]

CertificateVerifyController == [verify |-> Open]

VolunteerCertificateController == [issue |-> Signed(Member), listMine |-> Signed(Member)]

VolunteerController ==
    [create        |-> Signed(Staff),
     listByShelter |-> Signed(ReadVolunteerEvents),
     upcoming      |-> Signed(ReadVolunteerEvents),
     getOne        |-> Signed(ReadVolunteerEvents),
     signUp        |-> Signed(Active)]

VolunteerControllerDetail ==
    [cancel         |-> Signed(Staff),
     mySignups      |-> Signed(Member),
     withdraw       |-> Signed(Owner),
     listApplicants |-> Signed(ListEventSignups),
     decide         |-> Signed(Staff)]

-----------------------------------------------------------------------------
Controllers ==
    {Range(AdopterHistoryController), Range(AdoptionController),
     Range(AnimalController), Range(ShelterStatsController),
     Range(AnnouncementController), Range(ApprovalController),
     Range(AuthController), Range(ConsentController), Range(DsarController),
     Range(FaqController), Range(FavoriteController), Range(FosterController),
     Range(HealthController), Range(InquiryController), Range(MediaController),
     Range(MessageController), Range(NotificationController),
     Range(AdminPolicyController), Range(PolicyController),
     Range(QuestionnaireController), Range(ReportController),
     Range(ReviewController), Range(AdminStatsController),
     Range(ShelterDashboardController), Range(ShelterController),
     Range(ShelterControllerDetail), Range(UserController),
     Range(MyBookmarksController), Range(VolunteerPostController),
     Range(VolunteerPostControllerDetail), Range(CertificateVerifyController),
     Range(VolunteerCertificateController), Range(VolunteerController),
     Range(VolunteerControllerDetail)}

\* What a request can ask, whichever handler it reaches.
Routes == UNION Controllers
=============================================================================
