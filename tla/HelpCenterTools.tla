---------------------------- MODULE HelpCenterTools ----------------------------
(***************************************************************************)
(* The tools of the help_center namespace as plans: tools/help-center.ts.  *)
(* All but five address the Help Center of one brand.                      *)
(***************************************************************************)
EXTENDS ToolPlans

listTranslations == Get
listNodeTranslations == Get

\* Creates the translation if the listing has none, else updates it.
upsertNodeTranslation == <<listNodeTranslations, MayRefuse, PostOrPut>>

\* A section's articles, for as long as Zendesk gives a cursor.
fetchSectionOrder == Pages("free")

\* A reference outside the section is looked up, to say where it is.
assertReferenceInSection == <<Soft(Optional(Get)), MayRefuse>>

\* One write per article; a failure names how many were applied.
applyPositionWrites == HidesUnauthorized(Each(Put))

\* Scans pages of articles, cut at the cap with a note.
fetchPromotedArticles == Pages("capped")
fetchAllBrands == Pages("guarded")
fetchGapCategories == Get

list_brands == Reads("list_brands", "help_center", <<fetchAllBrands>>)
search_articles == BrandReads("search_articles", <<Get>>)
get_article == BrandReads("get_article", <<Get, listTranslations>>)
list_categories == BrandReads("list_categories", <<Get>>)
list_sections == BrandReads("list_sections", <<Get>>)
list_articles == BrandReads("list_articles", <<Get, Each(listTranslations)>>)
list_promoted_articles == BrandReads("list_promoted_articles", <<fetchPromotedArticles>>)
list_article_translations == BrandReads("list_article_translations", <<listTranslations>>)
create_article_translation == BrandWrites("create_article_translation", <<Post>>)
update_article_translation == BrandWrites("update_article_translation", <<Put>>)
list_section_translations == BrandReads("list_section_translations", <<listNodeTranslations>>)
list_category_translations == BrandReads("list_category_translations", <<listNodeTranslations>>)
find_translation_gaps == BrandReads("find_translation_gaps", <<Get, fetchGapCategories, Get>>)
set_section_translation == BrandWrites("set_section_translation", upsertNodeTranslation)
set_category_translation == BrandWrites("set_category_translation", upsertNodeTranslation)
list_permission_groups == Reads("list_permission_groups", "help_center", <<Get>>)
create_article == BrandWrites("create_article", <<Post>>)
update_article == BrandWrites("update_article", <<Put>>)
\* Placed already, sorted by Zendesk or too many writes: answered before any
\* write.  The order is read again afterwards.
reorder_article == BrandWrites("reorder_article",
  <<Get, fetchSectionOrder>> \o assertReferenceInSection
    \o <<MayAnswer, applyPositionWrites, fetchSectionOrder>>)
archive_article == BrandWrites("archive_article", <<Delete>>)
list_content_tags == Reads("list_content_tags", "help_center", <<Get>>)
create_content_tag == Writes("create_content_tag", "help_center", <<Post>>)
list_labels == BrandReads("list_labels", <<Get>>)
list_user_segments == Reads("list_user_segments", "help_center", <<Get>>)
list_article_attachments == BrandReads("list_article_attachments", <<Get>>)
get_article_outline == BrandReads("get_article_outline", <<Get, Get, listTranslations>>)
get_article_section == BrandReads("get_article_section", <<Get, MayRefuse>>)
\* The section is replaced in the body read, and the whole body written.
update_article_section == BrandWrites("update_article_section", <<Get, MayRefuse, Put>>)
compare_translations == BrandReads("compare_translations", <<Get, Get, listTranslations>>)
create_article_attachment == BrandWrites("create_article_attachment", <<Post>>)

HelpCenterToolSet ==
  {list_brands, search_articles, get_article, list_categories, list_sections,
   list_articles, list_promoted_articles, list_article_translations,
   create_article_translation, update_article_translation, list_section_translations,
   list_category_translations, find_translation_gaps, set_section_translation,
   set_category_translation, list_permission_groups, create_article, update_article,
   reorder_article, archive_article, list_content_tags, create_content_tag, list_labels,
   list_user_segments, list_article_attachments, get_article_outline,
   get_article_section, update_article_section, compare_translations,
   create_article_attachment}
================================================================================
